---- MODULE Spec2Model ----
(***************************************************************************)
(* A model of the Xline KV data plane:                                     *)
(*   - engine/src/memory_engine.rs : MemoryEngine and MemorySnapshot       *)
(*   - xline/src/storage/kvwatcher.rs : KvWatcher, WatcherMap, Watcher     *)
(*   - xline/src/client : the request builders and the client's calls      *)
(* Each group of operations has its own specification over the shared      *)
(* variables (SpecBatch, SpecSnap, SpecConc, SpecWatch, SpecLife,          *)
(* SpecCancel, SpecOpts, SpecKv).  The KV store and KeyRange are not part  *)
(* of these sources; they follow the specification of the store (write and *)
(* read path, revision, index, key ranges).                                *)
(***************************************************************************)
EXTENDS Integers, Sequences, FiniteSets, TLC

VARIABLES
    inner,          \* engine id -> (table name -> (key -> value)), for the engines built
    live,           \* history: engine id -> table -> key -> last Put not since removed
    wb,             \* the write_batch call that holds engine 1's write lock
    nbatches,       \* write_batch calls started so far
    snapshot,       \* the MemorySnapshot returned by get_snapshot
    new_snapshot,   \* a MemorySnapshot built by the caller (Cursor::new(Vec::new()))
    buf,            \* the caller's byte buffer (read_exact target, write_all source)
    nsnaps,         \* get_snapshot calls so far
    captured,       \* history: the bytes get_snapshot returned and the state they show
    ret,            \* the most recent call and what it returned
    storage,        \* the KV store: revision counter, committed events, write in flight
    kv_update,      \* the KV event channel from the store to the KvWatcher task
    watcher_map,    \* KvWatcher.watcher_map: watchers by id, ids by key range
    watches,        \* per watch call: its arguments, its delivery channel, what was sent
    reg,            \* the watch call that holds the watcher_map write lock
    task,           \* the background task spawned by new_arc
    builder         \* the client's request builder under construction

engineVars == <<inner, live, wb, nbatches, snapshot, new_snapshot, buf, nsnaps, captured>>

watchVars == <<storage, kv_update, watcher_map, watches, reg, task>>

clientVars == <<builder>>

vars == <<engineVars, ret, watchVars, clientVars>>

(***************************************************************************)
(* Bounds of the model.                                                    *)
(***************************************************************************)
MaxBatches == 2     \* write_batch calls in one behaviour
MaxOps == 2         \* operations in one write batch
MaxSnaps == 1       \* get_snapshot calls in one behaviour
MaxWrites == 2      \* requests the KV store commits in one behaviour
MaxWatches == 2     \* watch calls in one behaviour
ChanCap == 1        \* capacity of a watcher's delivery channel

(***************************************************************************)
(* Inputs: byte strings are sequences of bytes.                            *)
(***************************************************************************)
K1 == <<1>>
K2 == <<1, 2>>
K3 == <<2>>
Keys == {K1, K2, K3}
V1 == <<7>>
V2 == <<8>>
Values == {V1, V2}

\* table names are strings: their UTF-8 bytes
KV == <<107, 118>>                  \* "kv"
LEASE == <<108, 101, 97, 115, 101>> \* "lease"
HELLO == <<104, 101, 108, 108, 111>> \* "hello"
Tables1 == {KV, LEASE}              \* the tables the engines are built with
NoTable == HELLO                    \* a table no engine is built with
TableArgs == Tables1 \cup {NoTable}

Engines == {1, 2}

None == [some |-> FALSE]
Some(v) == [some |-> TRUE, val |-> v]

Ok(v) == [ok |-> TRUE, val |-> v]
Err(e) == [ok |-> FALSE, err |-> e]

EmptyFn == [x \in {} |-> x]

(***************************************************************************)
(* <[u8] as Ord>::cmp : bytewise lexicographic, a proper prefix is less.   *)
(***************************************************************************)
RECURSIVE Cmp(_, _)
Cmp(a, b) ==
    IF a = <<>> THEN (IF b = <<>> THEN "Equal" ELSE "Less")
    ELSE IF b = <<>> THEN "Greater"
    ELSE IF a[1] < b[1] THEN "Less"
    ELSE IF a[1] > b[1] THEN "Greater"
    ELSE Cmp(Tail(a), Tail(b))

(***************************************************************************)
(* MemoryEngine::new : one empty table per name.                           *)
(***************************************************************************)
New(tables) == [t \in tables |-> EmptyFn]

(***************************************************************************)
(* The write operations a batch may hold.                                  *)
(***************************************************************************)
PutOp(t, k, v) == [kind |-> "Put", table |-> t, key |-> k, value |-> v]
DeleteOp(t, k) == [kind |-> "Delete", table |-> t, key |-> k]
DeleteRangeOp(t, f, u) == [kind |-> "DeleteRange", table |-> t, from |-> f, to |-> u]

OpSet ==
    {PutOp(KV, k, V1) : k \in Keys}
    \cup {PutOp(KV, K1, V2), PutOp(LEASE, K1, V1), PutOp(NoTable, K1, V1)}
    \cup {DeleteOp(KV, K1), DeleteOp(KV, K3), DeleteOp(LEASE, K1),
          DeleteOp(NoTable, K1)}
    \cup {DeleteRangeOp(KV, f, u) : f \in Keys, u \in Keys}
    \cup {DeleteRangeOp(LEASE, K1, K3), DeleteRangeOp(NoTable, K1, K3)}

\* the ops of the batches that run beside get_snapshot
SnapOps ==
    {PutOp(KV, K1, V1), PutOp(KV, K2, V2), PutOp(LEASE, K1, V1),
     PutOp(NoTable, K1, V1), DeleteOp(KV, K1)}

\* the ops of the batches that fill the engine whose snapshot is copied and applied
CopyOps ==
    {PutOp(KV, K1, V1), PutOp(KV, K2, V2), PutOp(LEASE, K1, V1), DeleteOp(KV, K1)}

(***************************************************************************)
(* HashMap::insert, HashMap::remove and the retain closure of DeleteRange. *)
(***************************************************************************)
Insert(tb, k, v) == [x \in DOMAIN tb \cup {k} |-> IF x = k THEN v ELSE tb[x]]

Remove(tb, k) == [x \in DOMAIN tb \ {k} |-> tb[x]]

Retained(key, from, to) ==
    CASE Cmp(key, from) = "Less" -> TRUE
      [] Cmp(key, from) = "Equal" -> FALSE
      [] Cmp(key, from) = "Greater" ->
            (CASE Cmp(key, to) = "Less" -> FALSE
               [] OTHER -> TRUE)

Retain(tb, from, to) ==
    [x \in {k \in DOMAIN tb : Retained(k, from, to)} |-> tb[x]]

\* arms in which a Put keeps the value of a key that is bound
ApplyOpKeepFirst(db, op) ==
    CASE op.kind = "Put" ->
            [db EXCEPT ![op.table] = IF op.key \in DOMAIN db[op.table] THEN @
                                     ELSE Insert(@, op.key, op.value)]
      [] op.kind = "Delete" ->
            [db EXCEPT ![op.table] = Remove(db[op.table], op.key)]
      [] op.kind = "DeleteRange" ->
            [db EXCEPT ![op.table] = Retain(db[op.table], op.from, op.to)]

\* one arm of the match in write_batch, on a table that exists
ApplyOp(db, op) ==
    CASE op.kind = "Put" ->
            [db EXCEPT ![op.table] = Insert(db[op.table], op.key, op.value)]
      [] op.kind = "Delete" ->
            [db EXCEPT ![op.table] = Remove(db[op.table], op.key)]
      [] op.kind = "DeleteRange" ->
            [db EXCEPT ![op.table] = Retain(db[op.table], op.from, op.to)]

(***************************************************************************)
(* Reads.                                                                  *)
(***************************************************************************)
Lookup(tb, k) == IF k \in DOMAIN tb THEN Some(tb[k]) ELSE None

GetNoError(db, t, k) ==
    IF t \notin DOMAIN db THEN Ok(None) ELSE Ok(Lookup(db[t], k))

Get(db, t, k) ==
    IF t \notin DOMAIN db THEN Err("TableNotFound") ELSE Ok(Lookup(db[t], k))

GetMultiFiltered(db, t, keys) ==
    IF t \notin DOMAIN db THEN Err("TableNotFound")
    ELSE LET present(k) == k \in DOMAIN db[t]
             ks == SelectSeq(keys, present)
         IN Ok([i \in 1..Len(ks) |-> Some(db[t][ks[i]])])

GetMulti(db, t, keys) ==
    IF t \notin DOMAIN db THEN Err("TableNotFound")
    ELSE Ok([i \in 1..Len(keys) |-> Lookup(db[t], keys[i])])

Pairs(tb) == {<<k, tb[k]>> : k \in DOMAIN tb}

\* values.sort_by(|v1, v2| v1.0.cmp(&v2.0)) on the collected pairs
RECURSIVE SortByKey(_)
SortByKey(S) ==
    IF S = {} THEN <<>>
    ELSE LET m == CHOOSE x \in S : \A y \in S : Cmp(x[1], y[1]) # "Greater"
         IN <<m>> \o SortByKey(S \ {m})

RECURSIVE SortByValue(_)
SortByValue(S) ==
    IF S = {} THEN <<>>
    ELSE LET le(p, q) == \/ Cmp(p[2], q[2]) = "Less"
                         \/ Cmp(p[2], q[2]) = "Equal" /\ Cmp(p[1], q[1]) # "Less"
             m == CHOOSE x \in S : \A y \in S : le(x, y)
         IN <<m>> \o SortByValue(S \ {m})

GetAllByValue(db, t) ==
    IF t \notin DOMAIN db THEN Err("TableNotFound") ELSE Ok(SortByValue(Pairs(db[t])))

GetAll(db, t) ==
    IF t \notin DOMAIN db THEN Err("TableNotFound") ELSE Ok(SortByKey(Pairs(db[t])))

(***************************************************************************)
(* bincode::serialize / bincode::deserialize of                            *)
(* HashMap<String, HashMap<Vec<u8>, Vec<u8>>>: a length is a little-endian *)
(* u64, a map is its length and then its entries in iteration order, a     *)
(* string or byte vector is its length and then its bytes.  The iteration  *)
(* order of a HashMap is arbitrary: it is an argument of Encode.           *)
(***************************************************************************)
U64(n) ==
    <<n % 256, (n \div 256) % 256, (n \div 65536) % 256, (n \div 16777216) % 256,
      0, 0, 0, 0>>

EncBytes(b) == U64(Len(b)) \o b

RECURSIVE EncEntries(_, _)
EncEntries(tb, ks) ==
    IF ks = <<>> THEN <<>>
    ELSE EncBytes(Head(ks)) \o EncBytes(tb[Head(ks)]) \o EncEntries(tb, Tail(ks))

RECURSIVE EncTables(_, _, _)
EncTables(db, ts, kord) ==
    IF ts = <<>> THEN <<>>
    ELSE LET t == Head(ts)
         IN EncBytes(t) \o U64(Len(kord[t])) \o EncEntries(db[t], kord[t])
            \o EncTables(db, Tail(ts), kord)

Encode(db, tord, kord) == U64(Len(tord)) \o EncTables(db, tord, kord)

Perms(S) == {f \in [1..Cardinality(S) -> S] : \A x \in S : \E i \in DOMAIN f : f[i] = x}

\* the iteration orders of the outer map and of every table
Orders(db) ==
    LET korders == {f \in [DOMAIN db -> UNION {Perms(DOMAIN db[t]) : t \in DOMAIN db}] :
                        \A t \in DOMAIN db : f[t] \in Perms(DOMAIN db[t])}
    IN Perms(DOMAIN db) \X korders

Fail == [ok |-> FALSE, val |-> <<>>, rest |-> <<>>]

\* a length of 2^31 or more cannot be met by any input of the model: it is
\* read as one more than the bytes that are left, which fails the same way
ReadU64(s) ==
    IF Len(s) < 8 THEN Fail
    ELSE [ok |-> TRUE,
          val |-> IF s[4] < 128 /\ \A i \in 5..8 : s[i] = 0
                  THEN s[1] + 256 * s[2] + 65536 * s[3] + 16777216 * s[4]
                  ELSE Len(s) + 1,
          rest |-> SubSeq(s, 9, Len(s))]

ReadBytes(s) ==
    LET l == ReadU64(s)
    IN IF ~l.ok THEN Fail
       ELSE IF Len(l.rest) < l.val THEN Fail
       ELSE [ok |-> TRUE, val |-> SubSeq(l.rest, 1, l.val),
             rest |-> SubSeq(l.rest, l.val + 1, Len(l.rest))]

RECURSIVE ReadTable(_, _, _)
ReadTable(s, n, acc) ==
    IF n = 0 THEN [ok |-> TRUE, val |-> acc, rest |-> s]
    ELSE LET k == ReadBytes(s)
         IN IF ~k.ok THEN Fail
            ELSE LET v == ReadBytes(k.rest)
                 IN IF ~v.ok THEN Fail
                    ELSE ReadTable(v.rest, n - 1, Insert(acc, k.val, v.val))

RECURSIVE ReadDb(_, _, _)
ReadDb(s, n, acc) ==
    IF n = 0 THEN [ok |-> TRUE, val |-> acc, rest |-> s]
    ELSE LET name == ReadBytes(s)
         IN IF ~name.ok THEN Fail
            ELSE LET t == name.val
                     cnt == ReadU64(name.rest)
                 IN IF ~cnt.ok THEN Fail
                    ELSE LET tb == ReadTable(cnt.rest, cnt.val, EmptyFn)
                         IN IF ~tb.ok THEN Fail
                            ELSE ReadDb(tb.rest, n - 1, Insert(acc, t, tb.val))

\* trailing bytes are accepted (bincode::deserialize does not reject them)
Decode(s) ==
    LET c == ReadU64(s)
    IN IF ~c.ok THEN Err("UnderlyingError")
       ELSE LET r == ReadDb(c.rest, c.val, EmptyFn)
            IN IF r.ok THEN Ok(r.val) ELSE Err("UnderlyingError")

(***************************************************************************)
(* MemorySnapshot: a Cursor<Vec<u8>>, its bytes and its position.          *)
(***************************************************************************)
Snapshot(bytes) == [exists |-> TRUE, data |-> bytes, pos |-> 0]

Size(s) == Len(s.data)

Zeros(n) == [i \in 1..n |-> 0]

\* Cursor::read_exact into a zeroed buffer of n bytes
ReadExact(s, n) ==
    LET left == Len(s.data) - s.pos
    IN IF left < n
       THEN [res |-> Err("UnexpectedEof"),
             out |-> SubSeq(s.data, s.pos + 1, Len(s.data)) \o Zeros(n - left),
             snap |-> [s EXCEPT !.pos = Len(s.data)]]
       ELSE [res |-> Ok("unit"),
             out |-> SubSeq(s.data, s.pos + 1, s.pos + n),
             snap |-> [s EXCEPT !.pos = s.pos + n]]

\* Cursor<Vec<u8>>::write_all at the position, growing the vector
WriteAll(s, bytes) ==
    LET padded == IF s.pos > Len(s.data) THEN s.data \o Zeros(s.pos - Len(s.data))
                  ELSE s.data
        stop == s.pos + Len(bytes)
    IN [s EXCEPT !.data = SubSeq(padded, 1, s.pos) \o bytes
                          \o SubSeq(padded, stop + 1, Len(padded)),
                 !.pos = stop]

\* snapshot.data.into_inner(): the whole vector, whatever the position
IntoInnerFromPos(s) == SubSeq(s.data, s.pos + 1, Len(s.data))

IntoInner(s) == s.data

(***************************************************************************)
(* apply_snapshot: decode first, assign only a decoded map.                *)
(***************************************************************************)
ApplyMerging(db, s) ==
    LET new_db == Decode(IntoInner(s))
    IN IF ~new_db.ok THEN [res |-> new_db, db |-> db]
       ELSE [res |-> Ok("unit"),
             db |-> [t \in DOMAIN db \cup DOMAIN new_db.val |->
                        IF t \notin DOMAIN new_db.val THEN db[t]
                        ELSE IF t \notin DOMAIN db THEN new_db.val[t]
                        ELSE [k \in DOMAIN db[t] \cup DOMAIN new_db.val[t] |->
                                 IF k \in DOMAIN new_db.val[t] THEN new_db.val[t][k]
                                 ELSE db[t][k]]]]

Apply(db, s) ==
    LET new_db == Decode(IntoInner(s))
    IN IF ~new_db.ok THEN [res |-> new_db, db |-> db]
       ELSE [res |-> Ok("unit"), db |-> new_db.val]

(***************************************************************************)
(* The engine's RwLock: write_batch holds it exclusively from WbBegin to   *)
(* its return; a read (or another writer) waits until it is released.      *)
(***************************************************************************)
NoBatch == [active |-> FALSE]

LockFreeNever(e) == TRUE

LockFree(e) == ~(e = 1 /\ wb.active)

(***************************************************************************)
(* The history of the bindings.                                            *)
(***************************************************************************)
LiveOf(db) == [t \in DOMAIN db |-> [k \in Keys |-> Lookup(db[t], k)]]

LiveAfter(lv, op, before, after) ==
    CASE op.kind = "Put" -> [lv EXCEPT ![op.table][op.key] = Some(op.value)]
      [] op.kind = "Delete" -> [lv EXCEPT ![op.table][op.key] = None]
      [] op.kind = "DeleteRange" ->
            [lv EXCEPT ![op.table] =
                [k \in Keys |->
                    IF k \in DOMAIN before[op.table] /\ k \notin DOMAIN after[op.table]
                    THEN None ELSE lv[op.table][k]]]

(***************************************************************************)
(* Initial state: two engines built with the same tables, both empty.      *)
(***************************************************************************)
NoSnapshot == [exists |-> FALSE]

InitEngine ==
    /\ inner = [e \in Engines |-> New(Tables1)]
    /\ live = [e \in Engines |-> LiveOf(New(Tables1))]
    /\ wb = NoBatch
    /\ nbatches = 0
    /\ snapshot = NoSnapshot
    /\ new_snapshot = NoSnapshot
    /\ buf = <<>>
    /\ nsnaps = 0
    /\ captured = [exists |-> FALSE]
    /\ ret = [op |-> "none"]

(***************************************************************************)
(* The store, the channel and the KvWatcher as init_empty_store builds     *)
(* them: revision 0, nothing committed, no watcher, the task running.      *)
(***************************************************************************)
Idle == [phase |-> "idle"]

NoWatch == [active |-> FALSE]

InitWatch ==
    /\ storage = [revision |-> 0, history |-> <<>>, pending |-> Idle, nwrites |-> 0]
    /\ kv_update = [q |-> <<>>, open |-> TRUE]
    /\ watcher_map = [watchers |-> EmptyFn, index |-> EmptyFn]
    /\ watches = <<>>
    /\ reg = NoWatch
    /\ task = "running"

NoBuilder == [kind |-> "none"]

InitClient == builder = NoBuilder

Init == InitEngine /\ InitWatch /\ InitClient

(***************************************************************************)
(* write_batch on engine 1.  The op list is an input fixed by the caller;  *)
(* the loop consumes it one op per step while the write lock is held, so   *)
(* the model reveals the list op by op: WbBegin takes the lock, WbStep is  *)
(* one iteration of the loop (the `?` of a missing table returns the error *)
(* and drops the guard), WbEnd is the return after the last op.            *)
(***************************************************************************)
WbBegin ==
    /\ LockFree(1)
    /\ nbatches < MaxBatches
    /\ wb' = [active |-> TRUE, n |-> 0, before |-> inner[1], last |-> "none",
              pre |-> inner[1]]
    /\ nbatches' = nbatches + 1
    /\ ret' = [op |-> "write_batch_running"]
    /\ UNCHANGED <<inner, live, snapshot, new_snapshot, buf, nsnaps, captured>>
    /\ UNCHANGED <<watchVars, clientVars>>

WbStep(op) ==
    /\ wb.active
    /\ wb.n < MaxOps
    /\ IF op.table \notin DOMAIN inner[1]
       THEN /\ wb' = NoBatch
            /\ ret' = [op |-> "write_batch", res |-> Err("TableNotFound"),
                       before |-> wb.before, applied |-> wb.n, failed |-> op]
            /\ UNCHANGED <<inner, live>>
       ELSE /\ inner' = [inner EXCEPT ![1] = ApplyOp(inner[1], op)]
            /\ live' = [live EXCEPT ![1] = LiveAfter(live[1], op, inner[1], inner'[1])]
            /\ wb' = [wb EXCEPT !.n = wb.n + 1, !.last = op, !.pre = inner[1]]
            /\ ret' = [op |-> "write_batch_running"]
    /\ UNCHANGED <<nbatches, snapshot, new_snapshot, buf, nsnaps, captured>>
    /\ UNCHANGED <<watchVars, clientVars>>

WbEnd ==
    /\ wb.active
    /\ wb' = NoBatch
    /\ ret' = [op |-> "write_batch", res |-> Ok("unit"),
               before |-> wb.before, applied |-> wb.n]
    /\ UNCHANGED <<inner, live, nbatches, snapshot, new_snapshot, buf, nsnaps, captured>>
    /\ UNCHANGED <<watchVars, clientVars>>

(***************************************************************************)
(* get, get_multi, get_all: each holds the read lock for the whole call.   *)
(***************************************************************************)
Built(e) == e \in DOMAIN inner

\* the key lists given to get_multi: empty, repeated, absent and present keys
KeyLists == {<<>>, <<K1>>, <<K1, K1>>, <<K3, K1>>, <<K2, K3, K2>>}

DoGet(e, t, k) ==
    /\ Built(e)
    /\ LockFree(e)
    /\ ret' = [op |-> "get", e |-> e, table |-> t, key |-> k, res |-> Get(inner[e], t, k)]
    /\ UNCHANGED <<inner, live, wb, nbatches, snapshot, new_snapshot, buf, nsnaps, captured>>
    /\ UNCHANGED <<watchVars, clientVars>>

DoGetMulti(e, t, keys) ==
    /\ Built(e)
    /\ LockFree(e)
    /\ ret' = [op |-> "get_multi", e |-> e, table |-> t, keys |-> keys,
               res |-> GetMulti(inner[e], t, keys)]
    /\ UNCHANGED <<inner, live, wb, nbatches, snapshot, new_snapshot, buf, nsnaps, captured>>
    /\ UNCHANGED <<watchVars, clientVars>>

DoGetAll(e, t) ==
    /\ Built(e)
    /\ LockFree(e)
    /\ ret' = [op |-> "get_all", e |-> e, table |-> t, res |-> GetAll(inner[e], t)]
    /\ UNCHANGED <<inner, live, wb, nbatches, snapshot, new_snapshot, buf, nsnaps, captured>>
    /\ UNCHANGED <<watchVars, clientVars>>

NextBatch ==
    \/ WbBegin
    \/ \E op \in OpSet : WbStep(op)
    \/ WbEnd
    \/ \E t \in TableArgs, k \in Keys : DoGet(1, t, k)
    \/ \E t \in TableArgs, keys \in KeyLists : DoGetMulti(1, t, keys)
    \/ \E t \in TableArgs : DoGetAll(1, t)

SpecBatch == Init /\ [][NextBatch]_vars

\* the engine state at the most recent point where no batch held the lock
Committed(e) == IF e = 1 /\ wb.active THEN wb.before ELSE inner[e]

(***************************************************************************)
(* get_snapshot: serializes the map under the read lock.                   *)
(***************************************************************************)
GetSnapshot(e) ==
    /\ Built(e)
    /\ LockFree(e)
    /\ nsnaps < MaxSnaps
    /\ \E o \in Orders(inner[e]) :
          /\ snapshot' = Snapshot(Encode(inner[e], o[1], o[2]))
          /\ captured' = [exists |-> TRUE, e |-> e, data |-> snapshot'.data,
                          src |-> Committed(e)]
    /\ nsnaps' = nsnaps + 1
    /\ ret' = [op |-> "get_snapshot", e |-> e]
    /\ UNCHANGED <<inner, live, wb, nbatches, new_snapshot, buf>>
    /\ UNCHANGED <<watchVars, clientVars>>

(***************************************************************************)
(* The caller copies the snapshot chunk by chunk: read_exact into a buffer *)
(* (of all the bytes that are left, as the test does with size(), or of    *)
(* the first 8 bytes and then the rest), then write_all of the buffer into *)
(* a snapshot that starts empty.  A caller that stops after the first      *)
(* chunk leaves a truncated copy.                                          *)
(* These steps touch only the caller's own snapshot objects and buffer, so *)
(* they commute with the steps of a running batch; they are scheduled      *)
(* between batches only (Quiet), which loses no state the engine and the   *)
(* snapshots can be in together.                                           *)
(***************************************************************************)
Quiet == ~wb.active

Left(s) == Size(s) - s.pos

ReadSize(s, part) ==
    CASE part = "all" -> Left(s)
      [] part = "head" -> 8

DoReadExact(part) ==
    /\ Quiet
    /\ snapshot.exists
    /\ buf = <<>>
    /\ Left(snapshot) > 0
    /\ part = "head" => snapshot.pos = 0
    /\ LET r == ReadExact(snapshot, ReadSize(snapshot, part))
       IN /\ buf' = r.out
          /\ snapshot' = r.snap
          /\ ret' = [op |-> "read_exact", res |-> r.res]
    /\ UNCHANGED <<inner, live, wb, nbatches, new_snapshot, nsnaps, captured>>
    /\ UNCHANGED <<watchVars, clientVars>>

DoWriteAll ==
    /\ Quiet
    /\ buf # <<>>
    /\ new_snapshot' = WriteAll(IF new_snapshot.exists THEN new_snapshot ELSE Snapshot(<<>>),
                                buf)
    /\ buf' = <<>>
    /\ ret' = [op |-> "write_all"]
    /\ UNCHANGED <<inner, live, wb, nbatches, snapshot, nsnaps, captured>>
    /\ UNCHANGED <<watchVars, clientVars>>

(***************************************************************************)
(* apply_snapshot: takes the write lock, consumes the snapshot.            *)
(***************************************************************************)
DoApply(e, which) ==
    /\ Built(e)
    /\ LockFree(e)
    /\ LET s == IF which = "snapshot" THEN snapshot ELSE new_snapshot
       IN /\ s.exists
          /\ LET r == Apply(inner[e], s)
             IN /\ inner' = [inner EXCEPT ![e] = r.db]
                /\ live' = [live EXCEPT ![e] = LiveOf(r.db)]
                /\ ret' = [op |-> "apply_snapshot", e |-> e, res |-> r.res,
                           which |-> which, before |-> inner[e], data |-> s.data]
    /\ IF which = "snapshot"
       THEN snapshot' = NoSnapshot /\ UNCHANGED new_snapshot
       ELSE new_snapshot' = NoSnapshot /\ UNCHANGED snapshot
    /\ UNCHANGED <<wb, nbatches, buf, nsnaps, captured>>
    /\ UNCHANGED <<watchVars, clientVars>>

\* the caller copies one snapshot at a time: it takes a snapshot when it has
\* no copy in progress
NoCopy == ~new_snapshot.exists /\ buf = <<>>

NextSnap ==
    \/ WbBegin
    \/ \E op \in CopyOps : WbStep(op)
    \/ WbEnd
    \/ (NoCopy /\ GetSnapshot(1))
    \/ \E part \in {"all", "head"} : DoReadExact(part)
    \/ DoWriteAll
    \/ DoApply(1, "snapshot")
    \/ DoApply(2, "new_snapshot")

SpecSnap == Init /\ [][NextSnap]_vars

NextConc ==
    \/ WbBegin
    \/ \E op \in SnapOps : WbStep(op)
    \/ WbEnd
    \/ \E e \in Engines : GetSnapshot(e)

SpecConc == Init /\ [][NextConc]_vars

(***************************************************************************)
(* Two engines built with different table names: snapshots of either are   *)
(* applied to either, beside the batches on the first.                     *)
(***************************************************************************)
Tables2 == {KV, HELLO}

TablesOf == (1 :> Tables1) @@ (2 :> Tables2)

InitTables ==
    /\ inner = [e \in Engines |-> New(TablesOf[e])]
    /\ live = [e \in Engines |-> LiveOf(New(TablesOf[e]))]
    /\ wb = NoBatch
    /\ nbatches = 0
    /\ snapshot = NoSnapshot
    /\ new_snapshot = NoSnapshot
    /\ buf = <<>>
    /\ nsnaps = 0
    /\ captured = [exists |-> FALSE]
    /\ ret = [op |-> "none"]
    /\ InitWatch
    /\ InitClient

NextTables ==
    \/ WbBegin
    \/ \E op \in CopyOps : WbStep(op)
    \/ WbEnd
    \/ \E e \in Engines : GetSnapshot(e)
    \/ \E e \in Engines : DoApply(e, "snapshot")
    \/ \E e \in Engines, t \in Tables1 \cup Tables2 : DoGet(e, t, K1)

SpecTables == InitTables /\ [][NextTables]_vars

(***************************************************************************)
(* Key ranges.  contains_key: an empty range_end is the single key; a      *)
(* range_end of one zero byte is unbounded above; otherwise the range is   *)
(* key <= k < range_end in the bytewise order.                             *)
(***************************************************************************)
KeyRange(key, range_end) == [key |-> key, range_end |-> range_end]

NewOneKey(k) == KeyRange(k, <<>>)

Unbounded == <<0>>

ContainsKey(kr, k) ==
    IF kr.range_end = <<>> THEN k = kr.key
    ELSE IF kr.range_end = Unbounded
         THEN kr.key = Unbounded \/ Cmp(kr.key, k) # "Greater"
         ELSE Cmp(kr.key, k) # "Greater" /\ Cmp(k, kr.range_end) = "Less"

(***************************************************************************)
(* Events.  An event carries its type, the key and the mod_revision of the *)
(* record it reports; a batch is the events one committed request made,    *)
(* all at the revision of the request.                                     *)
(***************************************************************************)
Event(type, key, rev) == [type |-> type, key |-> key, mod_revision |-> rev]

EventTypes == {"PUT", "DELETE"}

\* the requests the store is given: what each does to which key, in order
Requests ==
    { <<[type |-> "PUT", key |-> K1]>>,
      <<[type |-> "DELETE", key |-> K1]>>,
      <<[type |-> "PUT", key |-> K2], [type |-> "DELETE", key |-> K1]>> }

\* all committed events, in revision order
RECURSIVE Flatten(_)
Flatten(batches) ==
    IF batches = <<>> THEN <<>>
    ELSE batches[1].events \o Flatten(Tail(batches))

AllEvents == Flatten(storage.history)

\* a key is live when its latest committed event is a PUT
IsLive(k) ==
    LET idx == {i \in 1..Len(AllEvents) : AllEvents[i].key = k}
    IN idx # {} /\ AllEvents[CHOOSE i \in idx : \A j \in idx : j <= i].type = "PUT"

\* revision(): the current revision counter
Revision == storage.revision

RECURSIVE SelectEvents(_, _, _)
SelectEvents(evs, kr, rev) ==
    IF evs = <<>> THEN <<>>
    ELSE LET rest == SelectEvents(Tail(evs), kr, rev)
         IN IF ContainsKey(kr, evs[1].key) /\ evs[1].mod_revision >= rev
            THEN <<evs[1]>> \o rest ELSE rest

\* get_event_from_revision: the committed events of the range from a revision on
GetEventFromRevision(kr, rev) == SelectEvents(AllEvents, kr, rev)

(***************************************************************************)
(* The write path of the KV store, one request at a time: the index update *)
(* and the flush make the events visible to get_event_from_revision; then  *)
(* the batch is published on the KV event channel; then the revision       *)
(* counter advances.                                                       *)
(***************************************************************************)
StoreSync(req) ==
    /\ storage.pending = Idle
    /\ kv_update.open
    /\ storage.nwrites < MaxWrites
    /\ \A i \in 1..Len(req) : req[i].type = "DELETE" => IsLive(req[i].key)
    /\ LET main == storage.revision + 1
           batch == [revision |-> main,
                     events |-> [i \in 1..Len(req) |-> Event(req[i].type, req[i].key, main)]]
       IN storage' = [storage EXCEPT !.history = Append(@, batch),
                                     !.pending = [phase |-> "synced", batch |-> batch],
                                     !.nwrites = @ + 1]
    /\ UNCHANGED <<kv_update, watcher_map, watches, reg, task, ret, engineVars, clientVars>>

StorePublish ==
    /\ storage.pending.phase = "synced"
    /\ storage' = [storage EXCEPT !.pending.phase = "published"]
    /\ kv_update' = IF task = "running"
                    THEN [kv_update EXCEPT !.q = Append(@, storage.pending.batch)]
                    ELSE kv_update
    /\ UNCHANGED <<watcher_map, watches, reg, task, ret, engineVars, clientVars>>

StoreAdvance ==
    /\ storage.pending.phase = "published"
    /\ storage' = [storage EXCEPT !.revision = storage.pending.batch.revision,
                                  !.pending = Idle]
    /\ UNCHANGED <<kv_update, watcher_map, watches, reg, task, ret, engineVars, clientVars>>

\* the store is dropped: the sending half of the KV event channel closes
StoreClose ==
    /\ storage.pending = Idle
    /\ kv_update.open
    /\ kv_update' = [kv_update EXCEPT !.open = FALSE]
    /\ UNCHANGED <<storage, watcher_map, watches, reg, task, ret, engineVars, clientVars>>

(***************************************************************************)
(* Watcher and its delivery channel.  A watch call brings its own channel  *)
(* and stop_notify; watches[c] holds them for the c-th call, with the      *)
(* history of the responses the channel accepted.                          *)
(***************************************************************************)
Watcher(kr, id, start_rev, filters, c) ==
    [key_range |-> kr, watch_id |-> id, start_rev |-> start_rev,
     filters |-> filters, chan |-> c]

WatchResponse(revision, id, events) ==
    [revision |-> revision, watch_id |-> id, events |-> events]

\* mpsc::Sender::try_send on a bounded channel
TrySend(ch, msg) ==
    IF ch.rx_dropped THEN [ch |-> ch, res |-> "Closed"]
    ELSE IF Len(ch.q) >= ChanCap THEN [ch |-> ch, res |-> "Full"]
    ELSE [ch |-> [ch EXCEPT !.q = Append(@, msg), !.sent = Append(@, msg)],
          res |-> "Ok"]

NotifyUnfiltered(w, ch, revision, events) ==
    IF revision < w.start_rev THEN [ch |-> ch, res |-> "Return"]
    ELSE LET r == TrySend(ch, WatchResponse(revision, w.watch_id, events))
         IN IF r.res = "Full" THEN [ch |-> ch, res |-> "Panic"]
            ELSE IF r.res = "Closed"
                 THEN [ch |-> [ch EXCEPT !.stopped = TRUE], res |-> "Closed"]
                 ELSE r

Notify(w, ch, revision, events) ==
    IF revision < w.start_rev THEN [ch |-> ch, res |-> "Return"]
    ELSE LET kept == SelectSeq(events, LAMBDA e : e.type \notin w.filters)
         IN IF kept = <<>> THEN [ch |-> ch, res |-> "Return"]
            ELSE LET r == TrySend(ch, WatchResponse(revision, w.watch_id, kept))
                 IN IF r.res = "Full" THEN [ch |-> ch, res |-> "Panic"]
                    ELSE IF r.res = "Closed"
                         THEN [ch |-> [ch EXCEPT !.stopped = TRUE], res |-> "Closed"]
                         ELSE r

(***************************************************************************)
(* WatcherMap.  A failed assertion or expect panics where it stands: what  *)
(* the call changed before it stays changed.                               *)
(***************************************************************************)
\* HashMap::insert and HashSet::insert with their answers not looked at
MapInsertReplacing(m, w) ==
    LET kr == w.key_range
        bucket == IF kr \in DOMAIN m.index THEN m.index[kr] ELSE {}
    IN [map |-> [watchers |-> Insert(m.watchers, w.watch_id, w),
                 index |-> Insert(m.index, kr, bucket \cup {w.watch_id})],
        panic |-> "none"]

MapInsert(m, w) ==
    LET id == w.watch_id
        kr == w.key_range
        ws == Insert(m.watchers, id, w)
        bucket == IF kr \in DOMAIN m.index THEN m.index[kr] ELSE {}
    IN IF id \in DOMAIN m.watchers
       THEN [map |-> [m EXCEPT !.watchers = ws],
             panic |-> "can't insert a watcher twice"]
       ELSE IF id \in bucket
            THEN [map |-> [m EXCEPT !.watchers = ws],
                  panic |-> "can't insert a watcher twice"]
            ELSE [map |-> [watchers |-> ws,
                           index |-> Insert(m.index, kr, bucket \cup {id})],
                  panic |-> "none"]

\* a remove that leaves the bucket in the index when it has become empty
MapRemoveKeepBucket(m, id) ==
    IF id \notin DOMAIN m.watchers
    THEN [map |-> m, panic |-> "no such watcher"]
    ELSE LET kr == m.watchers[id].key_range
             ws == Remove(m.watchers, id)
         IN IF kr \notin DOMAIN m.index \/ id \notin m.index[kr]
            THEN [map |-> [m EXCEPT !.watchers = ws],
                  panic |-> "no such watcher in index"]
            ELSE [map |-> [watchers |-> ws,
                           index |-> Insert(m.index, kr, m.index[kr] \ {id})],
                  panic |-> "none"]

\* HashMap::remove with a missing entry taken for nothing to do
MapRemoveQuiet(m, id) ==
    IF id \notin DOMAIN m.watchers
    THEN [map |-> m, panic |-> "none"]
    ELSE LET kr == m.watchers[id].key_range
             ws == Remove(m.watchers, id)
         IN IF kr \notin DOMAIN m.index \/ id \notin m.index[kr]
            THEN [map |-> [m EXCEPT !.watchers = ws],
                  panic |-> "no such watcher in index"]
            ELSE LET bucket == m.index[kr] \ {id}
                 IN [map |-> [watchers |-> ws,
                              index |-> IF bucket = {} THEN Remove(m.index, kr)
                                        ELSE Insert(m.index, kr, bucket)],
                     panic |-> "none"]

MapRemove(m, id) ==
    IF id \notin DOMAIN m.watchers
    THEN [map |-> m, panic |-> "no such watcher"]
    ELSE LET kr == m.watchers[id].key_range
             ws == Remove(m.watchers, id)
         IN IF kr \notin DOMAIN m.index \/ id \notin m.index[kr]
            THEN [map |-> [m EXCEPT !.watchers = ws],
                  panic |-> "no such watcher in index"]
            ELSE LET bucket == m.index[kr] \ {id}
                 IN [map |-> [watchers |-> ws,
                              index |-> IF bucket = {} THEN Remove(m.index, kr)
                                        ELSE Insert(m.index, kr, bucket)],
                     panic |-> "none"]

(***************************************************************************)
(* watch.  The call takes the watcher_map write lock and keeps it to its   *)
(* end.  It asks the store twice, for the events from start_rev and then   *)
(* for the revision, and holds no lock of the store in between: a request  *)
(* the store is committing on another thread can move between the two.     *)
(* WatchBegin is the call up to the first answer, WatchEnd the rest.       *)
(***************************************************************************)
WatchIds == {1, 2}

\* the arguments of the watch calls: id, key range, start_rev, filters
WatchArgs ==
    { <<1, NewOneKey(K1), 1, {}>>,
      <<1, KeyRange(K1, K3), 0, {}>>,
      <<2, KeyRange(K1, K3), 2, {"DELETE"}>> }

\* a response some other holder of the sender put on the channel
Foreign == WatchResponse(0, 0, <<>>)

\* the call on a channel of which `used` slots are taken; the history lookup
\* answers Ok or Err, and watch takes an Err for an empty history
WatchBeginWith(id, kr, start_rev, filters, used, lookup) ==
    /\ ~reg.active
    /\ Len(watches) < MaxWatches
    /\ LET c == Len(watches) + 1
       IN /\ watches' = Append(watches,
                [id |-> id, key_range |-> kr, start_rev |-> start_rev,
                 filters |-> filters, q |-> [i \in 1..used |-> Foreign],
                 rx_dropped |-> FALSE,
                 sent |-> <<>>, stopped |-> FALSE, state |-> "running",
                 initial_events |-> <<>>, backfill |-> <<>>, effective |-> 0])
          /\ reg' = [active |-> TRUE, chan |-> c,
                     watcher |-> Watcher(kr, id, start_rev, filters, c),
                     initial_events |-> IF start_rev = 0 \/ lookup = "Err" THEN <<>>
                                        ELSE GetEventFromRevision(kr, start_rev)]
    /\ ret' = [op |-> "watch_running"]
    /\ UNCHANGED <<storage, kv_update, watcher_map, task, engineVars, clientVars>>

\* the call on an empty channel, with a lookup that answers
WatchBegin(id, kr, start_rev, filters) ==
    WatchBeginWith(id, kr, start_rev, filters, 0, "Ok")

EffectiveStartCurrent(ie, revision) ==
    IF ie = <<>> THEN revision ELSE ie[Len(ie)].mod_revision + 1

EffectiveStartLast(ie, revision) ==
    IF ie = <<>> THEN revision + 1 ELSE ie[Len(ie)].mod_revision

\* the start revision the watcher is registered with
EffectiveStart(ie, revision) ==
    IF ie = <<>> THEN revision + 1 ELSE ie[Len(ie)].mod_revision + 1

WatchEnd ==
    /\ reg.active
    /\ LET c == reg.chan
           w == reg.watcher
           ie == reg.initial_events
           last_revision == ie[Len(ie)].mod_revision
           n == IF ie = <<>> THEN [ch |-> watches[c], res |-> "Return"]
                ELSE Notify(w, watches[c], last_revision, ie)
           start == EffectiveStart(ie, Revision)
           ins == MapInsert(watcher_map, [w EXCEPT !.start_rev = start])
           \* history: what the call saw and did
           seen == [n.ch EXCEPT !.initial_events = ie, !.backfill = n.ch.sent,
                                !.effective = start]
       IN IF n.res = "Panic"
          THEN /\ watches' = [watches EXCEPT ![c] = [seen EXCEPT !.state = "panicked"]]
               /\ ret' = [op |-> "watch", chan |-> c, panic |-> "todo"]
               /\ UNCHANGED watcher_map
          ELSE /\ watches' = [watches EXCEPT ![c] =
                                 [seen EXCEPT !.state = IF ins.panic = "none"
                                                       THEN "returned" ELSE "panicked"]]
               /\ watcher_map' = ins.map
               /\ ret' = [op |-> "watch", chan |-> c, panic |-> ins.panic]
    /\ reg' = NoWatch
    /\ UNCHANGED <<storage, kv_update, task, engineVars, clientVars>>

(***************************************************************************)
(* cancel: takes the write lock and removes the watcher.                   *)
(***************************************************************************)
Cancel(id) ==
    /\ ~reg.active
    /\ LET r == MapRemove(watcher_map, id)
       IN /\ watcher_map' = r.map
          /\ ret' = [op |-> "cancel", id |-> id, panic |-> r.panic]
    /\ UNCHANGED <<storage, kv_update, watches, reg, task, engineVars, clientVars>>

(***************************************************************************)
(* handle_kv_updates, under the read lock.  The first loop groups the      *)
(* events per watcher; the second notifies the watchers in the iteration   *)
(* order of a HashMap, which is any order.                                 *)
(***************************************************************************)
\* the watch ids the index gives for a key, one per bucket that holds the id
Buckets(m, k, id) == {kr \in DOMAIN m.index : ContainsKey(kr, k) /\ id \in m.index[kr]}

Dangling(m, events) ==
    \E i \in 1..Len(events) : \E kr \in DOMAIN m.index : \E id \in m.index[kr] :
        ContainsKey(kr, events[i].key) /\ id \notin DOMAIN m.watchers

RECURSIVE Repeat(_, _)
Repeat(e, n) == IF n = 0 THEN <<>> ELSE <<e>> \o Repeat(e, n - 1)

RECURSIVE EventsFor(_, _, _)
EventsFor(m, id, events) ==
    IF events = <<>> THEN <<>>
    ELSE LET e == events[1]
             rest == EventsFor(m, id, Tail(events))
         IN IF e.mod_revision < m.watchers[id].start_rev THEN rest
            ELSE Repeat(e, Cardinality(Buckets(m, e.key, id))) \o rest

WatcherEvents(m, events) ==
    LET all == [id \in DOMAIN m.watchers |-> EventsFor(m, id, events)]
    IN [id \in {x \in DOMAIN all : all[x] # <<>>} |-> all[id]]

RECURSIVE NotifyAllUntilClosed(_, _, _, _, _)
NotifyAllUntilClosed(m, chs, order, revision, evs) ==
    IF order = <<>> THEN [chs |-> chs, panic |-> "none"]
    ELSE LET w == m.watchers[order[1]]
             n == Notify(w, chs[w.chan], revision, evs[order[1]])
             chs2 == [chs EXCEPT ![w.chan] = n.ch]
         IN IF n.res = "Panic" THEN [chs |-> chs2, panic |-> "todo"]
            ELSE IF n.res = "Closed" THEN [chs |-> chs2, panic |-> "none"]
            ELSE NotifyAllUntilClosed(m, chs2, Tail(order), revision, evs)

RECURSIVE NotifyAll(_, _, _, _, _)
NotifyAll(m, chs, order, revision, evs) ==
    IF order = <<>> THEN [chs |-> chs, panic |-> "none"]
    ELSE LET w == m.watchers[order[1]]
             n == Notify(w, chs[w.chan], revision, evs[order[1]])
             chs2 == [chs EXCEPT ![w.chan] = n.ch]
         IN IF n.res = "Panic" THEN [chs |-> chs2, panic |-> "todo"]
            ELSE NotifyAll(m, chs2, Tail(order), revision, evs)

HandleKvUpdates(m, chs, batch, order) ==
    IF Dangling(m, batch.events)
    THEN [chs |-> chs, panic |-> "watcher index and watchers doesn't match"]
    ELSE NotifyAll(m, chs, order, batch.revision, WatcherEvents(m, batch.events))

\* one turn of the task's loop: recv a batch, handle it
Dispatch ==
    /\ task = "running"
    /\ ~reg.active
    /\ kv_update.q # <<>>
    /\ LET batch == Head(kv_update.q)
           evs == IF Dangling(watcher_map, batch.events) THEN EmptyFn
                  ELSE WatcherEvents(watcher_map, batch.events)
       IN \E order \in Perms(DOMAIN evs) :
            LET r == HandleKvUpdates(watcher_map, watches, batch, order)
            IN /\ watches' = r.chs
               /\ task' = IF r.panic = "none" THEN "running" ELSE "panicked"
    /\ kv_update' = [kv_update EXCEPT !.q = Tail(@)]
    /\ UNCHANGED <<storage, watcher_map, reg, ret, engineVars, clientVars>>

\* recv returns None: the channel is closed and empty, the loop ends
TaskExit ==
    /\ task = "running"
    /\ ~kv_update.open
    /\ kv_update.q = <<>>
    /\ task' = "done"
    /\ UNCHANGED <<storage, kv_update, watcher_map, watches, reg, ret, engineVars, clientVars>>

(***************************************************************************)
(* The subscriber of a watch: it takes the responses off its channel, and  *)
(* it may drop the receiving half.                                         *)
(***************************************************************************)
Recv(c) ==
    /\ c \in 1..Len(watches)
    /\ ~watches[c].rx_dropped
    /\ watches[c].q # <<>>
    /\ watches' = [watches EXCEPT ![c].q = Tail(@)]
    /\ UNCHANGED <<storage, kv_update, watcher_map, reg, task, ret, engineVars, clientVars>>

DropRx(c) ==
    /\ c \in 1..Len(watches)
    /\ ~watches[c].rx_dropped
    /\ watches' = [watches EXCEPT ![c].rx_dropped = TRUE, ![c].q = <<>>]
    /\ UNCHANGED <<storage, kv_update, watcher_map, reg, task, ret, engineVars, clientVars>>

\* a subscriber that takes a response only off a full channel: taking one
\* earlier changes no answer of try_send that taking it then does not give
Full(c) == c \in 1..Len(watches) /\ Len(watches[c].q) >= ChanCap

NextWatch ==
    \/ \E req \in Requests : StoreSync(req)
    \/ StorePublish
    \/ StoreAdvance
    \/ \E a \in WatchArgs : WatchBegin(a[1], a[2], a[3], a[4])
    \/ WatchEnd
    \/ Dispatch
    \/ \E c \in 1..MaxWatches : Full(c) /\ Recv(c)

SpecWatch == Init /\ [][NextWatch]_vars

(***************************************************************************)
(* The life of a delivery channel and of the task: a channel that is       *)
(* handed to watch with its slots taken, a history lookup that fails, the  *)
(* subscriber of the first watch that goes away, the store that goes away. *)
(***************************************************************************)
\* how a call finds its channel and its history: slots taken, lookup answer
CallCases == { <<0, "Ok">>, <<ChanCap, "Ok">>, <<0, "Err">> }

NextLife ==
    \/ StoreSync(<<[type |-> "PUT", key |-> K1]>>)
    \/ StorePublish
    \/ StoreAdvance
    \/ StoreClose
    \/ \E a \in WatchArgs : \E u \in CallCases :
          WatchBeginWith(a[1], a[2], a[3], a[4], u[1], u[2])
    \/ WatchEnd
    \/ Dispatch
    \/ TaskExit
    \/ DropRx(1)
    \/ \E c \in 1..MaxWatches : Full(c) /\ Recv(c)

SpecLife == Init /\ [][NextLife]_vars

(***************************************************************************)
(* Registration and cancellation: watch calls and cancel calls while a     *)
(* request commits and the subscriber of the first watch goes away.        *)
(***************************************************************************)
\* the requests committed while watchers come and go
MaxNotified == 1

NextCancel ==
    \/ storage.nwrites < MaxNotified /\ StoreSync(<<[type |-> "PUT", key |-> K1]>>)
    \/ StorePublish
    \/ StoreAdvance
    \/ \E a \in WatchArgs : WatchBegin(a[1], a[2], a[3], a[4])
    \/ WatchEnd
    \/ \E id \in WatchIds : Cancel(id)
    \/ Dispatch
    \/ DropRx(1)
    \/ \E c \in 1..MaxWatches : Full(c) /\ Recv(c)

SpecCancel == Init /\ [][NextCancel]_vars

(***************************************************************************)
(* The request builders of the client (client/kv/opts.rs).  A builder is   *)
(* passed by value from one method to the next; `calls` is the history of  *)
(* the methods called on it.                                               *)
(***************************************************************************)
MaxCalls == 2       \* builder methods called before the request is built

\* keys a caller gives to a builder: empty, plain, ending in 0xFF, all 0xFF
OptKeys == {<<>>, K1, <<1, 255>>, <<255>>, <<255, 255>>}
OptEnds == {K3}

RangeOptionsNew ==
    [kind |-> "range", inner |-> [key |-> <<>>, range_end |-> <<>>, revision |-> 0],
     all_keys |-> FALSE, prefix |-> FALSE, from_key |-> FALSE, calls |-> <<>>]

DeleteRangeOptionsNew ==
    [kind |-> "delete", inner |-> [key |-> <<>>, range_end |-> <<>>],
     all_keys |-> FALSE, prefix |-> FALSE, from_key |-> FALSE, calls |-> <<>>]

PutOptionsNew ==
    [kind |-> "put", inner |-> [key |-> <<>>, value |-> <<>>, ignore_value |-> FALSE],
     calls |-> <<>>]

Called(o, name) == [o EXCEPT !.calls = Append(@, name)]

WithKey(o, key) == Called([o EXCEPT !.inner.key = key], "with_key")

\* a with_range_end that leaves the flags as they are
WithRangeEndKeepFlags(o, range_end) ==
    Called([o EXCEPT !.inner.range_end = range_end], "with_range_end")

WithRangeEnd(o, range_end) ==
    Called([o EXCEPT !.all_keys = FALSE, !.prefix = FALSE, !.from_key = FALSE,
                     !.inner.range_end = range_end], "with_range_end")

WithAllKeys(o) ==
    Called([o EXCEPT !.all_keys = TRUE, !.prefix = FALSE, !.from_key = FALSE],
           "with_all_keys")

WithPrefix(o) ==
    Called([o EXCEPT !.all_keys = FALSE, !.prefix = TRUE, !.from_key = FALSE],
           "with_prefix")

WithFromKey(o) ==
    Called([o EXCEPT !.all_keys = FALSE, !.prefix = FALSE, !.from_key = TRUE],
           "with_from_key")

WithRevision(o, revision) ==
    Called([o EXCEPT !.inner.revision = revision], "with_revision")

WithKv(o, key, value) ==
    Called([o EXCEPT !.inner.key = key, !.inner.value = value], "with_kv")

WithIgnoreValue(o, ignore_value) ==
    Called([o EXCEPT !.inner.ignore_value = ignore_value], "with_ignore_value")

\* KeyRange::get_prefix: the end of the range of the keys that start with key
RECURSIVE GetPrefix(_)
GetPrefix(key) ==
    IF key = <<>> THEN <<0>>
    ELSE IF key[Len(key)] < 255
         THEN [key EXCEPT ![Len(key)] = @ + 1]
         ELSE GetPrefix(SubSeq(key, 1, Len(key) - 1))

\* a From that hands out the inner request as it is
RangeRequestFromInner(option) == option.inner

\* a From that makes a request for the current revision of the range alone
RangeRequestFromNoRevision(option) ==
    LET r0 == [option.inner EXCEPT !.revision = 0]
    IN IF option.all_keys \/ (option.prefix /\ r0.key = <<>>)
       THEN [r0 EXCEPT !.key = <<0>>, !.range_end = <<0>>]
       ELSE IF option.prefix THEN [r0 EXCEPT !.range_end = GetPrefix(r0.key)]
       ELSE IF option.from_key
            THEN [r0 EXCEPT !.key = IF r0.key = <<>> THEN <<0>> ELSE r0.key,
                            !.range_end = <<0>>]
            ELSE r0

\* a From in which all_keys leaves a range_end that was set as it is
RangeRequestFromKeepEnd(option) ==
    LET r0 == option.inner
    IN IF option.all_keys /\ r0.range_end # <<>>
       THEN [r0 EXCEPT !.key = <<0>>]
       ELSE IF option.all_keys \/ (option.prefix /\ r0.key = <<>>)
            THEN [r0 EXCEPT !.key = <<0>>, !.range_end = <<0>>]
            ELSE IF option.prefix THEN [r0 EXCEPT !.range_end = GetPrefix(r0.key)]
            ELSE IF option.from_key
                 THEN [r0 EXCEPT !.key = IF r0.key = <<>> THEN <<0>> ELSE r0.key,
                                 !.range_end = <<0>>]
                 ELSE r0

\* impl From<RangeOptions> for rpc::RangeRequest
RangeRequestFrom(option) ==
    LET r0 == option.inner
        r1 == IF option.all_keys
              THEN [r0 EXCEPT !.key = <<0>>, !.range_end = <<0>>] ELSE r0
        r2 == IF option.prefix
              THEN IF r1.key = <<>>
                   THEN [r1 EXCEPT !.key = <<0>>, !.range_end = <<0>>]
                   ELSE [r1 EXCEPT !.range_end = GetPrefix(r1.key)]
              ELSE r1
        r3 == IF option.from_key
              THEN [(IF r2.key = <<>> THEN [r2 EXCEPT !.key = <<0>>] ELSE r2)
                       EXCEPT !.range_end = <<0>>]
              ELSE r2
    IN r3

DeleteRangeRequestFromInner(option) == option.inner

\* a From that makes the request of the key alone
DeleteRangeRequestFromKeyOnly(option) == [option.inner EXCEPT !.range_end = <<>>]

\* impl From<DeleteRangeOptions> for rpc::DeleteRangeRequest
DeleteRangeRequestFrom(option) ==
    LET r0 == option.inner
        r1 == IF option.all_keys
              THEN [r0 EXCEPT !.key = <<0>>, !.range_end = <<0>>] ELSE r0
        r2 == IF option.prefix
              THEN IF r1.key = <<>>
                   THEN [r1 EXCEPT !.key = <<0>>, !.range_end = <<0>>]
                   ELSE [r1 EXCEPT !.range_end = GetPrefix(r1.key)]
              ELSE r1
        r3 == IF option.from_key
              THEN [(IF r2.key = <<>> THEN [r2 EXCEPT !.key = <<0>>] ELSE r2)
                       EXCEPT !.range_end = <<0>>]
              ELSE r2
    IN r3

(***************************************************************************)
(* Txn.  when, and_then and or_else look at the flags c_when, c_then and   *)
(* c_else before they store their argument; each answers the Txn or the    *)
(* message of the assertion that failed.                                   *)
(***************************************************************************)
TxnNew ==
    [kind |-> "txn", inner |-> [compare |-> <<>>, success |-> <<>>, failure |-> <<>>],
     c_when |-> FALSE, c_then |-> FALSE, c_else |-> FALSE, calls |-> <<>>]

When(t, compare) ==
    IF t.c_when THEN [txn |-> t, panic |-> "cannot call when twice"]
    ELSE IF t.c_then THEN [txn |-> t, panic |-> "cannot call when after and_then"]
    ELSE IF t.c_else THEN [txn |-> t, panic |-> "cannot call when after or_else"]
    ELSE [txn |-> Called([t EXCEPT !.inner.compare = compare], "when"),
          panic |-> "none"]

AndThen(t, success) ==
    IF t.c_then THEN [txn |-> t, panic |-> "cannot call and_then twice"]
    ELSE IF t.c_else THEN [txn |-> t, panic |-> "cannot call and_then after or_else"]
    ELSE [txn |-> Called([t EXCEPT !.inner.success = success], "and_then"),
          panic |-> "none"]

OrElse(t, failure) ==
    IF t.c_else THEN [txn |-> t, panic |-> "cannot call or_else twice"]
    ELSE [txn |-> Called([t EXCEPT !.inner.failure = failure], "or_else"),
          panic |-> "none"]

\* what a caller puts in a Txn: compare entries and request ops
Compare(key, range_end) == [key |-> key, range_end |-> range_end]

RequestOpPut(key, value) == [request |-> "PutRequest", key |-> key, value |-> value]

RequestOpDeleteRange(key, range_end) ==
    [request |-> "DeleteRangeRequest", key |-> key, range_end |-> range_end]

TxnCompares ==
    { <<Compare(K1, <<>>)>>, <<Compare(K3, <<>>), Compare(K1, K3)>> }

TxnOps == { <<RequestOpPut(K2, V1)>>, <<RequestOpDeleteRange(K3, <<0>>)>> }

(***************************************************************************)
(* Client::command_from_request_wrapper: the key ranges a Command carries  *)
(* for its request.                                                        *)
(***************************************************************************)
\* From<..> for the request of a builder, wrapped as a RequestWrapper
\* a wrapper whose put request loses the ignore_value of the options
RequestWrapperPlainPut(b) ==
    IF b.kind = "range" THEN [request |-> "RangeRequest", body |-> RangeRequestFrom(b)]
    ELSE IF b.kind = "delete"
         THEN [request |-> "DeleteRangeRequest", body |-> DeleteRangeRequestFrom(b)]
    ELSE IF b.kind = "put"
         THEN [request |-> "PutRequest", body |-> [b.inner EXCEPT !.ignore_value = FALSE]]
    ELSE [request |-> "TxnRequest", body |-> b.inner]

RequestWrapper(b) ==
    IF b.kind = "range" THEN [request |-> "RangeRequest", body |-> RangeRequestFrom(b)]
    ELSE IF b.kind = "delete"
         THEN [request |-> "DeleteRangeRequest", body |-> DeleteRangeRequestFrom(b)]
    ELSE IF b.kind = "put" THEN [request |-> "PutRequest", body |-> b.inner]
    ELSE [request |-> "TxnRequest", body |-> b.inner]

\* a variant that also lists the keys of the operations of a transaction
CommandWithOpRanges(wrapper) ==
    LET req == wrapper.body
        OfList(l) == [i \in 1..Len(l) |-> KeyRange(l[i].key, <<>>)]
    IN [key_ranges |->
            IF wrapper.request = "TxnRequest"
            THEN OfList(req.compare) \o OfList(req.success) \o OfList(req.failure)
            ELSE <<KeyRange(req.key, <<>>)>>,
        request |-> wrapper]

CommandFromRequestWrapper(wrapper) ==
    LET req == wrapper.body
        key_ranges ==
            IF wrapper.request = "RangeRequest" THEN <<KeyRange(req.key, req.range_end)>>
            ELSE IF wrapper.request = "PutRequest" THEN <<KeyRange(req.key, <<>>)>>
            ELSE IF wrapper.request = "DeleteRangeRequest"
                 THEN <<KeyRange(req.key, req.range_end)>>
            ELSE [i \in 1..Len(req.compare) |->
                     KeyRange(req.compare[i].key, req.compare[i].range_end)]
    IN [key_ranges |-> key_ranges, request |-> wrapper]

(***************************************************************************)
(* The steps of a caller that builds a request and makes a Command of it.  *)
(***************************************************************************)
NewBuilder(b) ==
    /\ builder = NoBuilder
    /\ builder' = b
    /\ ret' = [op |-> "new"]
    /\ UNCHANGED <<engineVars, watchVars>>

Building(kinds) == builder.kind \in kinds /\ Len(builder.calls) < MaxCalls

CallOptions ==
    /\ Building({"range", "delete"})
    /\ \/ \E k \in OptKeys : builder' = WithKey(builder, k)
       \/ \E e \in OptEnds : builder' = WithRangeEnd(builder, e)
       \/ builder' = WithAllKeys(builder)
       \/ builder' = WithPrefix(builder)
       \/ builder' = WithFromKey(builder)
    /\ UNCHANGED <<ret, engineVars, watchVars>>

CallPutOptions ==
    /\ Building({"put"})
    /\ \/ \E k \in {K1, <<>>} : builder' = WithKv(builder, k, V1)
       \/ builder' = WithIgnoreValue(builder, TRUE)
    /\ UNCHANGED <<ret, engineVars, watchVars>>

CallTxn ==
    /\ Building({"txn"})
    /\ \E r \in {When(builder, c) : c \in TxnCompares}
              \cup {AndThen(builder, o) : o \in TxnOps}
              \cup {OrElse(builder, o) : o \in TxnOps} :
          IF r.panic = "none"
          THEN builder' = r.txn /\ UNCHANGED ret
          ELSE /\ builder' = NoBuilder
               /\ ret' = [op |-> "txn_panic", panic |-> r.panic, from |-> builder]
    /\ UNCHANGED <<engineVars, watchVars>>

IntoCommand ==
    /\ builder # NoBuilder
    /\ ret' = [op |-> "command", from |-> builder,
               command |-> CommandFromRequestWrapper(RequestWrapper(builder))]
    /\ builder' = NoBuilder
    /\ UNCHANGED <<engineVars, watchVars>>

NextOpts ==
    \/ \E b \in {RangeOptionsNew, DeleteRangeOptionsNew, PutOptionsNew, TxnNew} : NewBuilder(b)
    \/ CallOptions
    \/ CallPutOptions
    \/ CallTxn
    \/ IntoCommand

SpecOpts == Init /\ [][NextOpts]_vars

(***************************************************************************)
(* The KV store serving the requests of the client.  A record of the store *)
(* is the latest event of its key: a key is live at a revision when its    *)
(* latest event up to that revision is a PUT.  Every committed write       *)
(* request takes the revision current + 1 for all its events.              *)
(***************************************************************************)
KvEvent(type, key, value, rev) ==
    [type |-> type, key |-> key, mod_revision |-> rev, value |-> value]

EventsUpTo(st, r) == SelectSeq(Flatten(st.history), LAMBDA e : e.mod_revision <= r)

LastOf(evs, k) ==
    LET idx == {i \in 1..Len(evs) : evs[i].key = k}
    IN evs[CHOOSE i \in idx : \A j \in idx : j <= i]

\* the keys that are live at revision r
LiveAt(st, r) ==
    LET evs == EventsUpTo(st, r)
    IN {k \in {evs[i].key : i \in 1..Len(evs)} : LastOf(evs, k).type = "PUT"}

\* Index::get: the live keys of the range in key order, with their mod_rev;
\* at_revision = 0 is the current revision
IndexGet(st, kr, at_revision) ==
    LET r == IF at_revision = 0 THEN st.revision ELSE at_revision
    IN SortByKey({<<k, LastOf(EventsUpTo(st, r), k).mod_revision>> :
                     k \in {x \in LiveAt(st, r) : ContainsKey(kr, x)}})

\* the record of a revision of a key
RecordOf(st, k, rev) ==
    LET e == LastOf(EventsUpTo(st, rev), k)
    IN [key |-> k, value |-> e.value, mod_revision |-> e.mod_revision]

\* the read path: range
StoreRange(st, req) ==
    LET revs == IndexGet(st, KeyRange(req.key, req.range_end), req.revision)
        kvs == [i \in 1..Len(revs) |-> RecordOf(st, revs[i][1], revs[i][2])]
    IN [storage |-> st, res |-> Ok([kvs |-> kvs, count |-> Len(kvs)])]

\* the write path: the batch of a request is flushed and the revision advances
Commit(st, events) ==
    LET batch == [revision |-> st.revision + 1, events |-> events]
    IN [st EXCEPT !.history = Append(@, batch), !.revision = batch.revision,
                  !.nwrites = @ + 1]

\* the write path: put
StorePut(st, req) ==
    LET main == st.revision + 1
        prev == IndexGet(st, NewOneKey(req.key), 0)
    IN IF req.ignore_value /\ prev = <<>>
       THEN [storage |-> st, res |-> Err("InvalidRequest")]
       ELSE LET value == IF req.ignore_value
                         THEN RecordOf(st, req.key, prev[1][2]).value
                         ELSE req.value
            IN [storage |-> Commit(st, <<KvEvent("PUT", req.key, value, main)>>),
                res |-> Ok([revision |-> main])]

\* the write path: delete_range
StoreDeleteRange(st, req) ==
    LET main == st.revision + 1
        revs == IndexGet(st, KeyRange(req.key, req.range_end), 0)
    IN [storage |-> Commit(st, [i \in 1..Len(revs) |->
                                   KvEvent("DELETE", revs[i][1], <<>>, main)]),
        res |-> Ok([revision |-> main, deleted |-> Len(revs)])]

\* the command of a request is executed by the store
Execute(st, cmd) ==
    LET w == cmd.request
    IN IF w.request = "RangeRequest" THEN StoreRange(st, w.body)
       ELSE IF w.request = "PutRequest" THEN StorePut(st, w.body)
       ELSE StoreDeleteRange(st, w.body)

(***************************************************************************)
(* Client::put, Client::get and Client::delete: the key is put into the    *)
(* options, the request is made of them, and its command is executed.      *)
(***************************************************************************)
MaxKvWrites == 3

\* the calls made: the key (and value) given and the options given
PutCalls ==
    { <<K1, V1, PutOptionsNew>>, <<K2, V1, PutOptionsNew>>, <<K3, V1, PutOptionsNew>>,
      <<K1, V2, PutOptionsNew>>,
      <<K1, <<>>, WithIgnoreValue(PutOptionsNew, TRUE)>>,
      <<K2, <<>>, WithIgnoreValue(PutOptionsNew, TRUE)>> }

GetCalls ==
    { <<K1, RangeOptionsNew>>, <<K2, RangeOptionsNew>>,
      <<K1, WithPrefix(RangeOptionsNew)>>,
      <<K2, WithFromKey(RangeOptionsNew)>>,
      <<K1, WithRangeEnd(RangeOptionsNew, K3)>>,
      <<<<>>, WithAllKeys(RangeOptionsNew)>>,
      <<<<>>, WithPrefix(RangeOptionsNew)>>,
      <<K3, WithAllKeys(WithRangeEnd(RangeOptionsNew, K3))>>,
      <<K1, WithRevision(RangeOptionsNew, 1)>>,
      <<K1, WithRevision(WithPrefix(RangeOptionsNew), 2)>>,
      <<K1, WithRevision(WithFromKey(RangeOptionsNew), 2)>> }

DeleteCalls ==
    { <<K1, DeleteRangeOptionsNew>>, <<K3, DeleteRangeOptionsNew>>,
      <<K1, WithPrefix(DeleteRangeOptionsNew)>>,
      <<K2, WithFromKey(DeleteRangeOptionsNew)>>,
      <<K1, WithRangeEnd(DeleteRangeOptionsNew, K3)>>,
      <<<<>>, WithPrefix(DeleteRangeOptionsNew)>>,
      <<K3, WithAllKeys(WithRangeEnd(DeleteRangeOptionsNew, K3))>> }

Propose(op, options) ==
    LET cmd == CommandFromRequestWrapper(RequestWrapper(options))
        out == Execute(storage, cmd)
    IN /\ out.storage # storage => storage.nwrites < MaxKvWrites
       /\ storage' = out.storage
       /\ kv_update' = IF out.storage # storage /\ task = "running"
                       THEN [kv_update EXCEPT !.q = Append(@, out.storage.history[Len(out.storage.history)])]
                       ELSE kv_update
       /\ ret' = [op |-> op, options |-> options, request |-> cmd.request.body,
                  res |-> out.res]
       /\ UNCHANGED <<watcher_map, watches, reg, task, engineVars, clientVars>>

ClientPut(key, value, opts) == Propose("put", WithKv(opts, key, value))

ClientGet(key, opts) == Propose("range", WithKey(opts, key))

ClientDelete(key, opts) == Propose("delete_range", WithKey(opts, key))

NextKv ==
    \/ \E c \in PutCalls : ClientPut(c[1], c[2], c[3])
    \/ \E c \in GetCalls : ClientGet(c[1], c[2])
    \/ \E c \in DeleteCalls : ClientDelete(c[1], c[2])

SpecKv == Init /\ [][NextKv]_vars

(***************************************************************************)
(* Bytewise lexicographic order, as the specification states it.           *)
(***************************************************************************)
MinLen(a, b) == IF Len(a) < Len(b) THEN Len(a) ELSE Len(b)

LexLess(a, b) ==
    \E i \in 1..(MinLen(a, b) + 1) :
        /\ \A j \in 1..(i - 1) : a[j] = b[j]
        /\ \/ i > Len(a) /\ i <= Len(b)
           \/ i <= Len(a) /\ i <= Len(b) /\ a[i] < b[i]

LexLeq(a, b) == a = b \/ LexLess(a, b)

(***************************************************************************)
(* C1: a write batch in which some op names a missing table returns an     *)
(* error and leaves every table as it was before the call, the ops before  *)
(* the failing one included.                                               *)
(***************************************************************************)
C1_BatchAtomicity ==
    (ret.op = "write_batch" /\ ~ret.res.ok) => inner[1] = ret.before

(***************************************************************************)
(* C2: DeleteRange(table, from, to) removes exactly the keys k with        *)
(* from <= k < to and keeps every other binding (so nothing when           *)
(* from >= to).                                                            *)
(***************************************************************************)
InRange(k, from, to) == LexLeq(from, k) /\ LexLess(k, to)

C2_DeleteRangeExact ==
    (wb.active /\ wb.n > 0 /\ wb.last.kind = "DeleteRange") =>
        LET t == wb.last.table
            keep == {k \in DOMAIN wb.pre[t] : ~InRange(k, wb.last.from, wb.last.to)}
        IN inner[1][t] = [k \in keep |-> wb.pre[t][k]]

(***************************************************************************)
(* C6: get fails with TableNotFound exactly when the table is unknown;     *)
(* otherwise it returns the value of the most recent Put of the key that   *)
(* was not removed since, absent when there is none; and get changes no    *)
(* engine state.                                                           *)
(***************************************************************************)
C6_GetState ==
    ret.op = "get" =>
        /\ ~ret.res.ok <=> ret.table \notin DOMAIN live[ret.e]
        /\ ~ret.res.ok => ret.res.err = "TableNotFound"
        /\ ret.res.ok => ret.res.val = live[ret.e][ret.table][ret.key]

C6_GetFrame == ret'.op = "get" => inner' = inner

C6_Get == []C6_GetState /\ [][C6_GetFrame]_vars

C6_Witness ==
    /\ ret.op = "get" /\ ret.res.ok /\ ret.res.val = Some(V2)
    /\ nbatches = MaxBatches

(***************************************************************************)
(* C7: get_multi returns one element per key, the i-th being what get of   *)
(* the i-th key returns on the same engine state, duplicates and absent    *)
(* keys in place.                                                          *)
(***************************************************************************)
C7_GetMulti ==
    (ret.op = "get_multi" /\ ret.table \in DOMAIN inner[ret.e]) =>
        /\ ret.res.ok
        /\ Len(ret.res.val) = Len(ret.keys)
        /\ \A i \in 1..Len(ret.keys) :
              ret.res.val[i] = Get(inner[ret.e], ret.table, ret.keys[i]).val

C7_Witness ==
    /\ ret.op = "get_multi" /\ ret.res.ok
    /\ ret.keys = <<K1, K1>>
    /\ ret.res.val = <<Some(V1), Some(V1)>>

C7_WitnessAbsent ==
    /\ ret.op = "get_multi" /\ ret.res.ok
    /\ ret.keys = <<K3, K1>>
    /\ ret.res.val = <<None, Some(V2)>>

(***************************************************************************)
(* C8: get_all returns every binding of the table once, nothing else, in   *)
(* strictly ascending bytewise lexicographic order of key.                 *)
(***************************************************************************)
C8_GetAll ==
    (ret.op = "get_all" /\ ret.table \in DOMAIN inner[ret.e]) =>
        LET tb == inner[ret.e][ret.table]
            out == ret.res.val
        IN /\ ret.res.ok
           /\ Len(out) = Cardinality(DOMAIN tb)
           /\ \A k \in DOMAIN tb : \E i \in 1..Len(out) : out[i] = <<k, tb[k]>>
           /\ \A i \in 1..Len(out) : out[i][1] \in DOMAIN tb /\ out[i][2] = tb[out[i][1]]
           /\ \A i \in 1..(Len(out) - 1) : LexLess(out[i][1], out[i + 1][1])

C8_Witness ==
    /\ ret.op = "get_all" /\ ret.res.ok
    /\ ret.res.val = <<(<<K1, V2>>), (<<K2, V1>>), (<<K3, V1>>)>>

(***************************************************************************)
(* C3: a snapshot of an engine, copied byte for byte into another snapshot *)
(* and applied to a fresh engine built with the same table names, succeeds *)
(* and gives an engine whose get_all(t) equals, for every table t, the     *)
(* get_all(t) of the original at the time of the snapshot.                 *)
(***************************************************************************)
C3_CopyApplied ==
    /\ ret.op = "apply_snapshot"
    /\ ret.which = "new_snapshot"
    /\ captured.exists
    /\ ret.data = captured.data
    /\ ret.before = New(DOMAIN captured.src)

C3_RoundTrip ==
    C3_CopyApplied =>
        /\ ret.res.ok
        /\ \A t \in DOMAIN captured.src :
              GetAll(inner[ret.e], t) = GetAll(captured.src, t)

C3_Witness ==
    /\ C3_CopyApplied
    /\ ret.e = 2
    /\ GetAll(inner[2], KV) = Ok(<<<<K1, V1>>, <<K2, V2>>>>)
    /\ GetAll(inner[2], LEASE) = Ok(<<<<K1, V1>>>>)

(***************************************************************************)
(* C4: the content of a snapshot is the engine state at a point where no   *)
(* write batch held the lock, that is the state after the batches that had *)
(* released the lock before the capture, and it stays that content         *)
(* whatever batches run afterwards.                                        *)
(***************************************************************************)
C4_PointInTime ==
    snapshot.exists => Decode(snapshot.data) = Ok(captured.src)

C4_Witness ==
    /\ snapshot.exists
    /\ captured.e = 1
    /\ captured.src # New(Tables1)
    /\ nbatches = MaxBatches
    /\ ~wb.active
    /\ inner[1] # captured.src
    /\ Decode(snapshot.data) = Ok(captured.src)

(***************************************************************************)
(* C5: a successful apply_snapshot leaves in the engine exactly the        *)
(* bindings the snapshot was taken from, whatever the engine held before;  *)
(* a snapshot whose bytes are cut short is refused with UnderlyingError;   *)
(* and every refused apply_snapshot leaves the engine as it was.           *)
(***************************************************************************)
IsProperPrefix(a, b) == Len(a) < Len(b) /\ a = SubSeq(b, 1, Len(a))

C5_ApplyReplaces ==
    ret.op = "apply_snapshot" =>
        /\ (captured.exists /\ ret.data = captured.data) =>
              (ret.res.ok /\ inner[ret.e] = captured.src)
        /\ (captured.exists /\ IsProperPrefix(ret.data, captured.data)) =>
              (~ret.res.ok /\ ret.res.err = "UnderlyingError")
        /\ ~ret.res.ok => inner[ret.e] = ret.before

C5_Witness ==
    /\ ret.op = "apply_snapshot"
    /\ ret.res.ok
    /\ ret.e = 1
    /\ ret.data = captured.data
    /\ \E t \in DOMAIN ret.before : \E k \in DOMAIN ret.before[t] :
          k \notin DOMAIN inner[1][t]
    /\ \E t \in DOMAIN inner[1] : inner[1][t] # EmptyFn

C5_WitnessUndecodable ==
    /\ ret.op = "apply_snapshot"
    /\ ~ret.res.ok
    /\ IsProperPrefix(ret.data, captured.data)
    /\ inner[ret.e] = ret.before

(***************************************************************************)
(* What a watch call asked for and what its channel was sent.              *)
(***************************************************************************)
Delivered(c) == Flatten(watches[c].sent)

Occurrences(evs, e) == Cardinality({i \in 1..Len(evs) : evs[i] = e})

\* the committed events the c-th watch call asked for
Wanted(c) ==
    SelectSeq(SelectEvents(AllEvents, watches[c].key_range, watches[c].start_rev),
              LAMBDA e : e.type \notin watches[c].filters)

\* the c-th watch call returned, its watcher is the one registered under its
\* id and its subscriber still listens
Watching(c) ==
    /\ watches[c].state = "returned"
    /\ ~watches[c].rx_dropped
    /\ watches[c].id \in DOMAIN watcher_map.watchers
    /\ watcher_map.watchers[watches[c].id].chan = c

\* every committed request was published and its batch was handled
Settled ==
    /\ storage.pending = Idle
    /\ kv_update.q = <<>>
    /\ ~reg.active
    /\ task = "running"

(***************************************************************************)
(* C9: a watcher registered with start_rev = r >= 1 while requests are     *)
(* being committed has been sent, once every committed batch was handled,  *)
(* each event of its range with mod_revision >= r exactly once.            *)
(***************************************************************************)
C9_ExactlyOnce ==
    Settled =>
        \A c \in 1..Len(watches) :
            (Watching(c) /\ watches[c].start_rev >= 1) =>
                \A i \in 1..Len(Wanted(c)) :
                    Occurrences(Delivered(c), Wanted(c)[i]) = 1

(***************************************************************************)
(* C10: a watcher registered with start_rev = s over a range with a filter *)
(* set is never sent an event whose key is outside the range, whose type   *)
(* is filtered or whose mod_revision is below s.                           *)
(***************************************************************************)
C10_OnlyRequested ==
    \A c \in 1..Len(watches) :
        \A i \in 1..Len(Delivered(c)) :
            LET e == Delivered(c)[i]
            IN /\ ContainsKey(watches[c].key_range, e.key)
               /\ e.type \notin watches[c].filters
               /\ e.mod_revision >= watches[c].start_rev

(***************************************************************************)
(* C11: the events one watcher is sent, backfill first and live responses  *)
(* after it, never go back in mod_revision, and from one response to the   *)
(* next they go strictly up; the events of one response may share their    *)
(* mod_revision, as the events of one request do.                          *)
(***************************************************************************)
NonDecreasing(evs) ==
    \A i, j \in 1..Len(evs) : i < j => evs[i].mod_revision <= evs[j].mod_revision

C11_Ordered ==
    \A c \in 1..Len(watches) :
        LET sent == watches[c].sent
        IN /\ NonDecreasing(Delivered(c))
           /\ \A i, j \in 1..Len(sent) : i < j =>
                 \A x \in 1..Len(sent[i].events) : \A y \in 1..Len(sent[j].events) :
                    sent[i].events[x].mod_revision < sent[j].events[y].mod_revision

\* a backfill response followed by a live response
C11_Witness ==
    \E c \in 1..Len(watches) :
        /\ Len(watches[c].backfill) = 1
        /\ Len(watches[c].sent) = 2
        /\ C11_Ordered

\* C11 as stated: no event follows an event with an equal or larger mod_revision
C11_StrictlyIncreasing ==
    \A c \in 1..Len(watches) :
        \A i, j \in 1..Len(Delivered(c)) : i < j =>
            Delivered(c)[i].mod_revision < Delivered(c)[j].mod_revision

(***************************************************************************)
(* C12: a watch call with start_rev = 0 sends nothing at registration,     *)
(* registers its watcher with the store's current revision plus one as the *)
(* start revision, and the watcher is sent afterwards only events with a   *)
(* mod_revision above the revision the call read.                          *)
(***************************************************************************)
C12_Registers ==
    (reg.active /\ ~reg'.active /\ reg.watcher.start_rev = 0) =>
        /\ watches'[reg.chan].sent = <<>>
        /\ watches'[reg.chan].effective = storage.revision + 1
        /\ watches'[reg.chan].state = "returned" =>
              /\ reg.watcher.watch_id \in DOMAIN watcher_map'.watchers
              /\ watcher_map'.watchers[reg.watcher.watch_id].start_rev
                    = storage.revision + 1

C12_OnlyLater ==
    \A c \in 1..Len(watches) :
        (watches[c].start_rev = 0 /\ watches[c].state # "running") =>
            /\ watches[c].backfill = <<>>
            /\ \A i \in 1..Len(Delivered(c)) :
                  Delivered(c)[i].mod_revision > watches[c].effective - 1

C12_StartZero == []C12_OnlyLater /\ [][C12_Registers]_vars

\* registered at revision 1 with start_rev = 0, then sent the event of revision 2
C12_Witness ==
    \E c \in 1..Len(watches) :
        /\ watches[c].start_rev = 0
        /\ watches[c].state = "returned"
        /\ watches[c].effective = 2
        /\ Len(watches[c].sent) = 1
        /\ watches[c].sent[1].revision = 2

(***************************************************************************)
(* C13: a watch call with start_rev # 0 that finds committed events of its *)
(* range from start_rev on sends, before dispatch can see the watcher, the *)
(* events among them that pass the filters as one response whose header    *)
(* revision is the mod_revision of the last event found, filtered or not;  *)
(* it sends no response when the filters reject them all; and it registers *)
(* the watcher with that last mod_revision plus one as the start revision. *)
(***************************************************************************)
Kept(c) ==
    SelectSeq(watches[c].initial_events, LAMBDA e : e.type \notin watches[c].filters)

LastFound(c) ==
    watches[c].initial_events[Len(watches[c].initial_events)].mod_revision

Hydrated(c) ==
    /\ watches[c].start_rev # 0
    /\ watches[c].state # "running"
    /\ watches[c].initial_events # <<>>

C13_Backfill ==
    \A c \in 1..Len(watches) :
        /\ watches[c].state = "running" => watches[c].sent = <<>>
        /\ Hydrated(c) =>
             /\ \A i \in 1..Len(watches[c].initial_events) :
                   LET e == watches[c].initial_events[i]
                   IN /\ ContainsKey(watches[c].key_range, e.key)
                      /\ e.mod_revision >= watches[c].start_rev
             /\ LET all == GetEventFromRevision(watches[c].key_range, watches[c].start_rev)
                IN SubSeq(all, 1, Len(watches[c].initial_events))
                      = watches[c].initial_events
             /\ watches[c].backfill =
                   IF Kept(c) = <<>> THEN <<>>
                   ELSE <<WatchResponse(LastFound(c), watches[c].id, Kept(c))>>
             /\ SubSeq(watches[c].sent, 1, Len(watches[c].backfill)) = watches[c].backfill
             /\ watches[c].effective = LastFound(c) + 1

\* the call that ends registers the watcher its backfill was computed for,
\* and it was not in the map of the dispatch task before
C13_Registers ==
    (reg.active /\ ~reg'.active /\ reg.initial_events # <<>>) =>
        /\ watches'[reg.chan].state = "returned" =>
              /\ reg.watcher.watch_id \notin DOMAIN watcher_map.watchers
              /\ watcher_map'.watchers[reg.watcher.watch_id].start_rev
                    = reg.initial_events[Len(reg.initial_events)].mod_revision + 1

Unregistered(m, id) ==
    /\ id \notin DOMAIN m.watchers
    /\ \A kr \in DOMAIN m.index : id \notin m.index[kr]

C14_Returns ==
    (reg.active /\ ~reg'.active /\ Unregistered(watcher_map, reg.watcher.watch_id)) =>
        /\ ret'.op = "watch"
        /\ ret'.panic = "none"
        /\ reg.watcher.watch_id \in DOMAIN watcher_map'.watchers
        /\ watcher_map'.watchers[reg.watcher.watch_id].chan = reg.chan
        /\ reg.watcher.watch_id \in watcher_map'.index[reg.watcher.key_range]

C14_WatchNeverFails == [][C14_Returns]_vars

(***************************************************************************)
(* The task takes the next batch whenever there is one, a watch call that  *)
(* holds the write lock runs to its end, and a subscriber that is there    *)
(* takes the responses off its channel.                                    *)
(***************************************************************************)
SpecLifeFair ==
    /\ SpecLife
    /\ WF_vars(Dispatch)
    /\ WF_vars(WatchEnd)
    /\ WF_vars(\E c \in 1..MaxWatches : Full(c) /\ Recv(c))

(***************************************************************************)
(* C15: a response that finds the channel of its watcher full is not lost: *)
(* the task keeps running, the response is tried again and it reaches the  *)
(* channel in the end.                                                     *)
(***************************************************************************)
\* the batch of revision r is the next one of the task, watcher c is
\* registered for an event of it, and the channel of c is full
Owed(c, r) ==
    /\ c \in 1..Len(watches)
    /\ Watching(c)
    /\ Full(c)
    /\ task = "running"
    /\ ~reg.active
    /\ kv_update.q # <<>>
    /\ Head(kv_update.q).revision = r
    /\ LET w == watcher_map.watchers[watches[c].id]
           evs == IF Dangling(watcher_map, Head(kv_update.q).events) THEN <<>>
                  ELSE EventsFor(watcher_map, w.watch_id, Head(kv_update.q).events)
       IN /\ r >= w.start_rev
          /\ \E i \in 1..Len(evs) : evs[i].type \notin w.filters

Got(c, r) ==
    /\ c \in 1..Len(watches)
    /\ \/ watches[c].rx_dropped
       \/ \E i \in 1..Len(watches[c].sent) : watches[c].sent[i].revision = r

C15_EventuallyDelivered ==
    \A c \in 1..MaxWatches : \A r \in 1..MaxWrites : Owed(c, r) ~> Got(c, r)

(***************************************************************************)
(* C20: the task takes the batches in the order they were published and    *)
(* stops only when the KV event channel is closed and empty; no delivery   *)
(* channel that is full or closed stops it.                                *)
(***************************************************************************)
C20_StopsOnlyDrained ==
    task # "running" => (~kv_update.open /\ kv_update.q = <<>>)

(***************************************************************************)
(* C16: a response that finds the channel of its watcher closed fires the  *)
(* watcher's stop_notify and nothing else: the task goes on, the other     *)
(* watchers the batch is for are sent their responses, and the id of the   *)
(* watcher leaves the watchers map and its bucket only when cancel is      *)
(* called for it.                                                          *)
(***************************************************************************)
\* the watchers the head batch has a response for, with the response
Due(m, batch) ==
    LET evs == IF Dangling(m, batch.events) THEN EmptyFn
               ELSE WatcherEvents(m, batch.events)
        resp == [id \in DOMAIN evs |->
                    SelectSeq(evs[id], LAMBDA e : e.type \notin m.watchers[id].filters)]
    IN [id \in {x \in DOMAIN evs : batch.revision >= m.watchers[x].start_rev
                                   /\ resp[x] # <<>>} |-> resp[id]]

C16_Handles ==
    (kv_update.q # <<>> /\ kv_update'.q = Tail(kv_update.q)) =>
        LET batch == Head(kv_update.q)
            due == Due(watcher_map, batch)
            Chan(id) == watcher_map.watchers[id].chan
        IN (\A id \in DOMAIN due : watches[Chan(id)].rx_dropped \/ ~Full(Chan(id))) =>
              /\ ~Dangling(watcher_map, batch.events) => task' = "running"
              /\ watcher_map' = watcher_map
              /\ \A id \in DOMAIN due :
                    IF watches[Chan(id)].rx_dropped
                    THEN /\ watches'[Chan(id)].stopped
                         /\ watches'[Chan(id)].sent = watches[Chan(id)].sent
                    ELSE watches'[Chan(id)].sent =
                            Append(watches[Chan(id)].sent,
                                   WatchResponse(batch.revision, id, due[id]))

C16_Stays ==
    \A id \in WatchIds :
        \/ ret'.op = "cancel" /\ ret'.id = id /\ ret' # ret
        \/ /\ id \in DOMAIN watcher_map.watchers => id \in DOMAIN watcher_map'.watchers
           /\ \A kr \in DOMAIN watcher_map.index :
                 id \in watcher_map.index[kr] =>
                    kr \in DOMAIN watcher_map'.index /\ id \in watcher_map'.index[kr]

C17_Insert ==
    (reg.active /\ ~reg'.active) =>
        LET id == reg.watcher.watch_id
        IN /\ id \in DOMAIN watcher_map.watchers =>
                 /\ ret'.op = "watch"
                 /\ ret'.panic = "can't insert a watcher twice"
                 /\ watches'[reg.chan].state = "panicked"
           /\ watches'[reg.chan].state = "returned" =>
                 /\ id \notin DOMAIN watcher_map.watchers
                 /\ watcher_map'.watchers[id].chan = reg.chan

\* the calls that returned and that stand in the watchers map under their id
Registered(id) ==
    {c \in 1..Len(watches) :
        /\ watches[c].id = id
        /\ watches[c].state = "returned"
        /\ id \in DOMAIN watcher_map.watchers
        /\ watcher_map.watchers[id].chan = c}

C17_OnePerId ==
    /\ \A id \in WatchIds : Cardinality(Registered(id)) <= 1
    /\ \A id \in DOMAIN watcher_map.watchers : watcher_map.watchers[id].watch_id = id

C17_Unique == []C17_OnePerId /\ [][C17_Insert]_vars

\* a second call with the id of a registered watcher has failed
C17_Witness ==
    /\ ret.op = "watch"
    /\ ret.panic = "can't insert a watcher twice"
    /\ Len(watches) = 2
    /\ watches[1].id = watches[2].id
    /\ watches[1].state = "returned"
    /\ watches[2].state = "panicked"

(***************************************************************************)
(* C18: cancel of a registered id takes the watcher out of the watchers    *)
(* map and out of the bucket of its key range, takes the bucket out when   *)
(* that leaves it empty and only then, changes no other watcher and no     *)
(* other bucket; and no batch handled later is sent under that id.         *)
(***************************************************************************)
C18_Removes ==
    (ret'.op = "cancel" /\ ret' # ret /\ ret'.id \in DOMAIN watcher_map.watchers) =>
        LET id == ret'.id
            kr == watcher_map.watchers[id].key_range
            old == watcher_map
            new == watcher_map'
        IN /\ ret'.panic = "none"
           /\ DOMAIN new.watchers = DOMAIN old.watchers \ {id}
           /\ \A o \in DOMAIN new.watchers : new.watchers[o] = old.watchers[o]
           /\ kr \in DOMAIN old.index
           /\ id \in old.index[kr]
           /\ kr \in DOMAIN new.index <=> old.index[kr] # {id}
           /\ kr \in DOMAIN new.index => new.index[kr] = old.index[kr] \ {id}
           /\ DOMAIN new.index \subseteq DOMAIN old.index
           /\ \A k \in DOMAIN old.index \ {kr} :
                 k \in DOMAIN new.index /\ new.index[k] = old.index[k]

\* a channel is sent a response only while its watcher is stored under its id
C18_NoLater ==
    \A c \in 1..Len(watches) :
        (watches[c].state # "running"
           /\ ~(watches[c].id \in DOMAIN watcher_map.watchers
                  /\ watcher_map.watchers[watches[c].id].chan = c)) =>
            watches'[c].sent = watches[c].sent

C18_Cancel == [][C18_Removes /\ C18_NoLater]_vars

(***************************************************************************)
(* C19: cancel of an id that is not registered, never registered or        *)
(* cancelled already, fails on "no such watcher" and changes neither the   *)
(* watchers map nor the index.                                             *)
(***************************************************************************)
C19_Rejects ==
    (ret'.op = "cancel" /\ ret' # ret /\ ret'.id \notin DOMAIN watcher_map.watchers) =>
        /\ ret'.panic = "no such watcher"
        /\ watcher_map' = watcher_map

C19_Answer ==
    (ret.op = "cancel" /\ ret.panic = "no such watcher") =>
        ret.id \notin DOMAIN watcher_map.watchers

C19_CancelUnknown == []C19_Answer /\ [][C19_Rejects]_vars

\* the one watcher there was is cancelled, and a second cancel of its id failed
C19_Witness ==
    /\ Len(watches) = 1
    /\ watches[1].state = "returned"
    /\ watcher_map.watchers = EmptyFn
    /\ watcher_map.index = EmptyFn
    /\ ret.op = "cancel"
    /\ ret.id = watches[1].id
    /\ ret.panic = "no such watcher"

(***************************************************************************)
(* C21: a RangeOptions or DeleteRangeOptions with the prefix flag and a    *)
(* key p that is not empty builds the request key = p, range_end = p with  *)
(* its last byte below 0xFF raised by one and the 0xFF bytes after it      *)
(* dropped; when every byte of p is 0xFF the request keeps key = p and     *)
(* gets range_end = [0].                                                   *)
(***************************************************************************)
AllFF(p) == \A i \in 1..Len(p) : p[i] = 255

IsPrefixEnd(p, e) ==
    \E i \in 1..Len(p) :
        /\ p[i] < 255
        /\ \A j \in (i + 1)..Len(p) : p[j] = 255
        /\ e = SubSeq(p, 1, i - 1) \o <<p[i] + 1>>

\* a request was built from options with the prefix flag and a key
PrefixBuilt ==
    /\ ret.op = "command"
    /\ ret.from.kind \in {"range", "delete"}
    /\ ret.from.prefix
    /\ ret.from.inner.key # <<>>

FromKeyBuilt ==
    /\ ret.op = "command"
    /\ ret.from.kind \in {"range", "delete"}
    /\ ret.from.from_key

C22_FromKey ==
    FromKeyBuilt =>
        LET k == ret.from.inner.key
            req == ret.command.request.body
        IN /\ req.range_end = <<0>>
           /\ req.key = IF k = <<>> THEN <<0>> ELSE k

\* with_range_end, then with_from_key on a delete: the range end is replaced
C22_Witness ==
    /\ FromKeyBuilt
    /\ ret.from.kind = "delete"
    /\ ret.from.inner.range_end = K3
    /\ ret.command.request.body.range_end = <<0>>
    /\ ret.command.request.body.key = <<0>>

(***************************************************************************)
(* C24: when panics on a Txn on which when, and_then or or_else was called *)
(* before; so on every Txn that is being built when was called once at     *)
(* most, and before and_then and or_else.                                  *)
(***************************************************************************)
Count(calls, name) == Cardinality({i \in 1..Len(calls) : calls[i] = name})

C24_WhenOnce ==
    builder.kind = "txn" =>
        /\ Count(builder.calls, "when") <= 1
        /\ \A i, j \in 1..Len(builder.calls) :
              (i < j /\ builder.calls[j] = "when") =>
                  builder.calls[i] \notin {"and_then", "or_else"}

(***************************************************************************)
(* C25: and_then panics on a Txn on which and_then or or_else was called   *)
(* before, and or_else on one on which or_else was called before; so no    *)
(* call replaces the success or failure operations of an earlier call.     *)
(***************************************************************************)
C25_BranchesOnce ==
    builder.kind = "txn" =>
        /\ Count(builder.calls, "and_then") <= 1
        /\ Count(builder.calls, "or_else") <= 1
        /\ \A i, j \in 1..Len(builder.calls) :
              (i < j /\ builder.calls[j] = "and_then") =>
                  builder.calls[i] # "or_else"

(***************************************************************************)
(* C26: the Command made of a request carries, for a Range or DeleteRange  *)
(* request, the one range (key, range_end) of the request; for a Put       *)
(* request the one range (key, empty end); for a Txn request one range per *)
(* compare entry, in the order of the compare list, and none for the       *)
(* operations of its success and failure branches.                         *)
(***************************************************************************)
C26_KeyRanges ==
    ret.op = "command" =>
        LET w == ret.command.request
            krs == ret.command.key_ranges
        IN CASE w.request \in {"RangeRequest", "DeleteRangeRequest"} ->
                  /\ Len(krs) = 1
                  /\ krs[1].key = w.body.key
                  /\ krs[1].range_end = w.body.range_end
             [] w.request = "PutRequest" ->
                  /\ Len(krs) = 1
                  /\ krs[1].key = w.body.key
                  /\ krs[1].range_end = <<>>
             [] w.request = "TxnRequest" ->
                  /\ Len(krs) = Len(w.body.compare)
                  /\ \A i \in 1..Len(krs) :
                        /\ krs[i].key = w.body.compare[i].key
                        /\ krs[i].range_end = w.body.compare[i].range_end

\* a transaction of two compare entries and a success branch was made a Command
C26_Witness ==
    /\ ret.op = "command"
    /\ ret.command.request.request = "TxnRequest"
    /\ Len(ret.command.request.body.compare) = 2
    /\ ret.command.request.body.success # <<>>
    /\ Len(ret.command.key_ranges) = 2
    /\ ret.command.key_ranges[2] = KeyRange(K1, K3)

(***************************************************************************)
(* C23: options with the all_keys flag, or with the prefix flag and an     *)
(* empty key, make the request key = [0], range_end = [0], whatever key    *)
(* and range_end were set before; a get issued with them returns every     *)
(* live key of the store and a delete issued with them deletes every live  *)
(* key of the store.                                                       *)
(***************************************************************************)
AllKeysBuilt(o) == o.all_keys \/ (o.prefix /\ o.inner.key = <<>>)

KeysIn(kvs) == {kvs[i].key : i \in 1..Len(kvs)}

C23_AllKeys ==
    (ret.op \in {"range", "delete_range"} /\ AllKeysBuilt(ret.options)) =>
        /\ ret.request.key = <<0>>
        /\ ret.request.range_end = <<0>>
        /\ ret.res.ok
        /\ ret.op = "range" =>
              KeysIn(ret.res.val.kvs) =
                  LiveAt(storage, IF ret.request.revision = 0 THEN storage.revision
                                  ELSE ret.request.revision)
        /\ ret.op = "delete_range" =>
              /\ ret.res.val.deleted = Cardinality(LiveAt(storage, storage.revision - 1))
              /\ LiveAt(storage, storage.revision) = {}

\* a delete with all_keys set after a range_end removed the two live keys
C23_Witness ==
    /\ ret.op = "delete_range"
    /\ ret.options.all_keys
    /\ ret.options.inner.range_end = K3
    /\ ret.options.inner.key = K3
    /\ ret.request = [key |-> <<0>>, range_end |-> <<0>>]
    /\ ret.res.val.deleted = 2
    /\ LiveAt(storage, storage.revision) = {}

(***************************************************************************)
(* C27: a put with ignore_value = true on a key that has no live value     *)
(* fails with an error and changes nothing in the store; on a key that has *)
(* a live value it succeeds, and a get of the key then returns the value   *)
(* the key had before.                                                     *)
(***************************************************************************)
GetOne(st, k) ==
    Execute(st, CommandFromRequestWrapper(RequestWrapper(WithKey(RangeOptionsNew, k)))).res

C27_IgnoreValue ==
    [][(ret'.op = "put" /\ ret'.options.inner.ignore_value) =>
          LET k == ret'.options.inner.key
              before == GetOne(storage, k)
              after == GetOne(storage', k)
          IN IF before.val.count = 0
             THEN /\ ~ret'.res.ok
                  /\ storage' = storage
                  /\ kv_update' = kv_update
             ELSE /\ ret'.res.ok
                  /\ after.val.count = 1
                  /\ after.val.kvs[1].value = before.val.kvs[1].value]_vars

\* a put of "" with ignore_value succeeded on a key put twice: its value is
\* that of the second put
C27_Witness ==
    /\ ret.op = "put"
    /\ ret.options.inner.ignore_value
    /\ ret.options.inner.value = <<>>
    /\ ret.res.ok
    /\ storage.revision = 3
    /\ GetOne(storage, K1).val.kvs[1].value = V2
    /\ GetOne(storage, K1).val.kvs[1].mod_revision = 3

(***************************************************************************)
(* C28: a delete of a single key, of [key, range_end), of a prefix, from a *)
(* key on, or of all keys removes exactly the keys of that range that were *)
(* live and reports their number as deleted (0 when there is none); the    *)
(* other keys stay readable with their records; the batch of the request   *)
(* holds one DELETE event per deleted key; and the store is left as by     *)
(* deleting each of these keys on its own.                                 *)
(***************************************************************************)
StartsWith(k, p) == Len(p) <= Len(k) /\ SubSeq(k, 1, Len(p)) = p

\* the keys a delete or get with these options is for
Selected(o, k) ==
    IF o.all_keys THEN TRUE
    ELSE IF o.prefix THEN StartsWith(k, o.inner.key)
    ELSE IF o.from_key THEN LexLeq(o.inner.key, k)
    ELSE IF o.inner.range_end = <<>> THEN k = o.inner.key
    ELSE LexLeq(o.inner.key, k) /\ LexLess(k, o.inner.range_end)

Live(st) == LiveAt(st, st.revision)

\* the live records of the store, without their revisions
Contents(st) == {<<k, GetOne(st, k).val.kvs[1].value>> : k \in Live(st)}

RECURSIVE DeleteEach(_, _)
DeleteEach(st, ks) ==
    IF ks = {} THEN st
    ELSE LET k == CHOOSE x \in ks : TRUE
             cmd == CommandFromRequestWrapper(
                        RequestWrapper(WithKey(DeleteRangeOptionsNew, k)))
         IN DeleteEach(Execute(st, cmd).storage, ks \ {k})

C28_DeleteRange ==
    [][ret'.op = "delete_range" =>
          LET sel == {k \in Live(storage) : Selected(ret'.options, k)}
              batch == storage'.history[Len(storage'.history)]
          IN /\ ret'.res.ok
             /\ ret'.res.val.deleted = Cardinality(sel)
             /\ Live(storage') = Live(storage) \ sel
             /\ \A k \in Live(storage) \ sel : GetOne(storage', k) = GetOne(storage, k)
             /\ Len(batch.events) = Cardinality(sel)
             /\ {e.key : e \in {batch.events[i] : i \in 1..Len(batch.events)}} = sel
             /\ \A i \in 1..Len(batch.events) : batch.events[i].type = "DELETE"
             /\ Contents(storage') = Contents(DeleteEach(storage, sel))]_vars

\* a delete of [[1], [2]) removed the key [1, 2] and left the key [2]
C28_Witness ==
    /\ ret.op = "delete_range"
    /\ ret.options.inner.key = K1
    /\ ret.options.inner.range_end = K3
    /\ ret.res.val.deleted = 1
    /\ LiveAt(storage, storage.revision - 1) = {K2, K3}
    /\ Live(storage) = {K3}

(***************************************************************************)
(* C29: a get with the prefix flag returns exactly the live keys that      *)
(* start with the key, with the from_key flag exactly the live keys >= the *)
(* key, with a range_end exactly the live keys of [key, range_end); the    *)
(* entries are in ascending order of key, one per key; a get with          *)
(* revision = r returns the keys that were live after the write that made  *)
(* revision r, with the values they had then.                              *)
(***************************************************************************)
\* the store as it was when the write that made revision r was committed
StoreAfter(r) == [storage EXCEPT !.history = SubSeq(@, 1, r), !.revision = r]

C29_Range ==
    (ret.op = "range" /\ ret.options.inner.revision <= storage.revision) =>
        LET o == ret.options
            then == IF o.inner.revision = 0 THEN storage
                    ELSE StoreAfter(o.inner.revision)
            kvs == ret.res.val.kvs
        IN /\ ret.res.ok
           /\ KeysIn(kvs) = {k \in Live(then) : Selected(o, k)}
           /\ \A i \in 1..(Len(kvs) - 1) : LexLess(kvs[i].key, kvs[i + 1].key)
           /\ \A i \in 1..Len(kvs) : <<kvs[i].key, kvs[i].value>> \in Contents(then)
           /\ ret.res.val.count = Len(kvs)

\* a get of the prefix [1] at revision 2 returned the two keys put first,
\* of which one has been deleted since
C29_Witness ==
    /\ ret.op = "range"
    /\ ret.options.prefix
    /\ ret.options.inner.revision = 2
    /\ storage.revision = 3
    /\ Len(ret.res.val.kvs) = 2
    /\ ret.res.val.kvs[1].key = K1
    /\ ret.res.val.kvs[2].key = K2
    /\ Live(storage) = {K2}

(***************************************************************************)
(* C30: when handle_kv_updates handles a batch, every registered watcher   *)
(* whose receiver is there is sent one response if at least one event of   *)
(* the batch has its key in the watcher's range, a mod_revision not below  *)
(* the watcher's start revision and a type the watcher does not filter,    *)
(* and none otherwise; the response carries the revision of the batch, the *)
(* id of the watcher and these events, in the order of the batch, once     *)
(* each.                                                                   *)
(***************************************************************************)
Matching(w, events) ==
    SelectSeq(events, LAMBDA e : /\ ContainsKey(w.key_range, e.key)
                                 /\ e.mod_revision >= w.start_rev
                                 /\ e.type \notin w.filters)

\* the responses a step put on a channel
NewlySent(c) == SubSeq(watches'[c].sent, Len(watches[c].sent) + 1, Len(watches'[c].sent))

Dispatched == kv_update.q # <<>> /\ kv_update'.q = Tail(kv_update.q)

C30_DispatchRule ==
    [][Dispatched =>
          \A id \in DOMAIN watcher_map.watchers :
              LET w == watcher_map.watchers[id]
                  batch == Head(kv_update.q)
                  matched == Matching(w, batch.events)
                  new == NewlySent(w.chan)
              IN ~watches[w.chan].rx_dropped =>
                    /\ Len(new) <= 1
                    /\ Len(new) = 1 <=> matched # <<>>
                    /\ Len(new) = 1 =>
                          new[1] = WatchResponse(batch.revision, id, matched)]_vars

(***************************************************************************)
(* C31: as long as no watch call has panicked (a cancel that panics on an  *)
(* unknown id leaves the map as it is), a watch id is a key of watchers    *)
(* exactly when it is in the index bucket of its watcher's key range, it   *)
(* is in no other bucket, and no bucket is empty; so handle_kv_updates     *)
(* finds a watcher for every id of the index.                              *)
(***************************************************************************)
NoWatchPanicked == \A c \in 1..Len(watches) : watches[c].state # "panicked"

BucketsOf(m, id) == {kr \in DOMAIN m.index : id \in m.index[kr]}

Consistent(m) ==
    /\ \A id \in DOMAIN m.watchers : BucketsOf(m, id) = {m.watchers[id].key_range}
    /\ \A kr \in DOMAIN m.index :
          /\ m.index[kr] # {}
          /\ m.index[kr] \subseteq DOMAIN m.watchers

C31_Consistent ==
    NoWatchPanicked =>
        /\ Consistent(watcher_map)
        /\ \A k \in Keys : ~Dangling(watcher_map, <<Event("PUT", k, 1)>>)

\* two watchers shared a bucket and the first of them was cancelled
C31_Witness ==
    /\ NoWatchPanicked
    /\ ret = [op |-> "cancel", id |-> 1, panic |-> "none"]
    /\ DOMAIN watcher_map.watchers = {2}
    /\ DOMAIN watcher_map.index = {KeyRange(K1, K3)}
    /\ watcher_map.index[KeyRange(K1, K3)] = {2}

(***************************************************************************)
(* C32: a watch call that fails the assertion "can't insert a watcher      *)
(* twice" leaves the WatcherMap as it was: the watcher registered first    *)
(* under the id is still the one stored, in the bucket of its key range.   *)
(***************************************************************************)
C32_RejectedUnchanged ==
    [][(reg.active /\ ret'.op = "watch"
           /\ ret'.panic = "can't insert a watcher twice") =>
          watcher_map' = watcher_map]_vars

(***************************************************************************)
(* C33: the handling of a batch is not interleaved with a watch call or a  *)
(* cancel call: no batch is handled while a watch call is between its      *)
(* backfill and its insertion, and the handling of a batch sends a watcher *)
(* all the events of the batch that match it, or none of them.             *)
(***************************************************************************)
C33_BatchAtomic ==
    [][Dispatched =>
          /\ ~reg.active
          /\ watcher_map' = watcher_map
          /\ \A id \in DOMAIN watcher_map.watchers :
                LET w == watcher_map.watchers[id]
                    matched == Matching(w, Head(kv_update.q).events)
                    new == NewlySent(w.chan)
                IN \/ new = <<>>
                   \/ Len(new) = 1 /\ new[1].events = matched]_vars

(***************************************************************************)
(* C34: a write_batch that succeeds leaves the engine as its operations    *)
(* leave it when they are applied one after another in the order of the    *)
(* list: a Put binds its key to its value whatever an earlier operation    *)
(* did to the key, a Delete leaves its key absent (and succeeds on a key   *)
(* that is absent), a DeleteRange only removes keys; an operation changes  *)
(* the table it names and no other; a batch without operations changes     *)
(* nothing; and the return adds nothing to what the operations did.        *)
(***************************************************************************)
C34_EachOp ==
    (wb.active /\ wb.n > 0) =>
        LET op == wb.last
            t == op.table
            pre == wb.pre
            now == inner[1]
        IN /\ DOMAIN now = DOMAIN pre
           /\ \A u \in DOMAIN pre \ {t} : now[u] = pre[u]
           /\ op.kind = "Put" =>
                 now[t] = [k \in DOMAIN pre[t] \cup {op.key} |->
                              IF k = op.key THEN op.value ELSE pre[t][k]]
           /\ op.kind = "Delete" =>
                 now[t] = [k \in DOMAIN pre[t] \ {op.key} |-> pre[t][k]]
           /\ op.kind = "DeleteRange" =>
                 /\ DOMAIN now[t] \subseteq DOMAIN pre[t]
                 /\ \A k \in DOMAIN now[t] : now[t][k] = pre[t][k]

C34_InOrder ==
    [][/\ (wb.active /\ wb'.active /\ wb'.n # wb.n) =>
              (wb'.n = wb.n + 1 /\ wb'.pre = inner[1] /\ wb'.before = wb.before)
       /\ (~wb.active /\ wb'.active) => (wb'.n = 0 /\ wb'.before = inner[1])
       /\ (wb.active /\ ~wb'.active /\ ret'.res.ok) =>
              /\ inner' = inner
              /\ ret'.applied = wb.n
              /\ wb.n = 0 => inner'[1] = wb.before]_vars

C34_Sequential == []C34_EachOp /\ C34_InOrder

\* the second operation of a batch deleted the key its first operation put
C34_Witness ==
    /\ wb.active
    /\ wb.n = 2
    /\ wb.last = DeleteOp(KV, K1)
    /\ K1 \notin DOMAIN wb.before[KV]
    /\ K1 \in DOMAIN wb.pre[KV]
    /\ K1 \notin DOMAIN inner[1][KV]

(***************************************************************************)
(* C35: a read never runs while a write batch holds the lock, and never    *)
(* sees a part of a batch: a get_all that follows the return of a          *)
(* write_batch sees the table as the whole batch left it when the batch    *)
(* succeeded, and as it was before the batch otherwise.                    *)
(***************************************************************************)
Reads == {"get", "get_multi", "get_all"}

C35_Isolated ==
    [][/\ (ret'.op \in Reads /\ ret' # ret) => (~wb.active /\ ~wb'.active)
       /\ (ret.op = "write_batch" /\ ret'.op = "get_all" /\ ret'.res.ok) =>
              \/ ret'.res = GetAll(ret.before, ret'.table)
              \/ ret.res.ok /\ ret'.res = GetAll(inner[1], ret'.table)]_vars

(***************************************************************************)
(* C36: whatever write_batch, get_snapshot and apply_snapshot calls were   *)
(* made, the tables for which get does not fail with TableNotFound are the *)
(* names the engine was built with.                                        *)
(***************************************************************************)
C36_TablesFixed ==
    \A e \in Engines : \A t \in Tables1 \cup Tables2 :
        (Get(inner[e], t, K1) # Err("TableNotFound")) <=> t \in TablesOf[e]

(***************************************************************************)
(* C37: on RangeOptions and DeleteRangeOptions at most one of the flags    *)
(* all_keys, prefix and from_key is set; the key and range_end of the      *)
(* request built are those of the last call among with_range_end,          *)
(* with_all_keys, with_prefix and with_from_key, taken with the final key  *)
(* (what an earlier one of these calls set is without effect); and the two *)
(* option types give the same key and range_end for the same calls.        *)
(***************************************************************************)
Selecting == {"with_range_end", "with_all_keys", "with_prefix", "with_from_key"}

\* the last range-selecting call of a sequence of calls, "none" without one
LastSelecting(calls) ==
    LET idx == {i \in 1..Len(calls) : calls[i] \in Selecting}
    IN IF idx = {} THEN "none" ELSE calls[CHOOSE i \in idx : \A j \in idx : j <= i]

FlagsSet(o) == Cardinality({f \in {"all_keys", "prefix", "from_key"} : o[f]})

C37_Flags ==
    /\ builder.kind \in {"range", "delete"} => FlagsSet(builder) <= 1
    /\ (ret.op = "command" /\ ret.from.kind \in {"range", "delete"}) =>
          LET o == ret.from
              key == o.inner.key
              req == ret.command.request.body
              last == LastSelecting(o.calls)
          IN /\ FlagsSet(o) <= 1
             /\ last = "none" => (req.key = key /\ req.range_end = <<>>)
             /\ last = "with_range_end" =>
                   (req.key = key /\ req.range_end = o.inner.range_end
                       /\ req.range_end \in OptEnds)
             /\ last = "with_all_keys" => (req.key = <<0>> /\ req.range_end = <<0>>)
             /\ last = "with_prefix" =>
                   IF key = <<>> THEN req.key = <<0>> /\ req.range_end = <<0>>
                   ELSE /\ req.key = key
                        /\ IF AllFF(key) THEN req.range_end = <<0>>
                           ELSE IsPrefixEnd(key, req.range_end)
             /\ last = "with_from_key" =>
                   /\ req.key = (IF key = <<>> THEN <<0>> ELSE key)
                   /\ req.range_end = <<0>>
             /\ RangeRequestFrom(o).key = DeleteRangeRequestFrom(o).key
             /\ RangeRequestFrom(o).range_end = DeleteRangeRequestFrom(o).range_end

\* with_range_end after with_prefix: the request has the range_end given
C37_Witness ==
    /\ ret.op = "command"
    /\ ret.from.kind = "delete"
    /\ ret.from.calls = <<"with_prefix", "with_range_end">>
    /\ FlagsSet(ret.from) = 0
    /\ ret.command.request.body.range_end = K3
    /\ ret.command.request.body.key = <<>>

====
